---------------------------- MODULE Spec2Model ----------------------------
(***************************************************************************)
(* Model of the container-log viewer of UNO-CLI (package logs): the line   *)
(* classifier parseLogLine / parseUniversalLog, the pump streamLogs, and   *)
(* the Bubble Tea model (Update / View).                                   *)
(*                                                                         *)
(* Strings are sequences of byte values (Go strings are byte sequences);   *)
(* the modelled inputs are ASCII.  Regular expressions are compiled to     *)
(* small backtracking programs that follow Go's leftmost-first submatch    *)
(* semantics for the operators the source uses.                            *)
(***************************************************************************)
EXTENDS Integers, Sequences, FiniteSets, TLC

(***************************************************************************)
(* Bytes and strings                                                       *)
(***************************************************************************)
Min(a, b) == IF a < b THEN a ELSE b
Max(a, b) == IF a > b THEN a ELSE b

Digit == 48..57
Upper == 65..90
Lower == 97..122
\* \w of Go's regexp: [0-9A-Za-z_]
WordCh == Digit \cup Upper \cup Lower \cup {95}
\* \s of Go's regexp: [\t\n\f\r ]
SpaceCh == {9, 10, 12, 13, 32}
\* . of Go's regexp (no s flag): any character but \n
AnyCh == (0..255) \ {10}
\* unicode.IsSpace on ASCII, as used by strings.TrimSpace and strings.Fields
TrimCh == {9, 10, 11, 12, 13, 32}

\* s[from .. end], 1-based; the empty string when from is past the end
Drop(s, n) == SubSeq(s, n + 1, Len(s))
Take(s, n) == SubSeq(s, 1, n)

\* strings.Index: 0-based index of the first occurrence of sub in s, or -1
Index(s, sub) ==
  LET hits == {i \in 1..(Len(s) - Len(sub) + 1) : SubSeq(s, i, i + Len(sub) - 1) = sub}
  IN  IF hits = {} THEN -1 ELSE (CHOOSE i \in hits : \A j \in hits : i <= j) - 1

\* strings.Contains
Contains(s, sub) == Index(s, sub) # -1

\* strings.ToLower / strings.ToUpper on ASCII
ToLower(s) == [i \in 1..Len(s) |-> IF s[i] \in Upper THEN s[i] + 32 ELSE s[i]]
ToUpper(s) == [i \in 1..Len(s) |-> IF s[i] \in Lower THEN s[i] - 32 ELSE s[i]]

\* strings.TrimSpace
TrimSpace(s) ==
  LET keep == {i \in 1..Len(s) : s[i] \notin TrimCh}
  IN  IF keep = {} THEN <<>>
      ELSE SubSeq(s, CHOOSE i \in keep : \A j \in keep : i <= j,
                     CHOOSE i \in keep : \A j \in keep : i >= j)

\* strings.Replace(s, old, "", 1): the first occurrence of old removed
RemoveFirst(s, old) ==
  LET i == Index(s, old)
  IN  IF i = -1 THEN s ELSE Take(s, i) \o Drop(s, i + Len(old))

(***************************************************************************)
(* String constants of the source                                          *)
(***************************************************************************)
\* "error"
s_error == <<101,114,114,111,114>>
\* "failed"
s_failed == <<102,97,105,108,101,100>>
\* "exception"
s_exception == <<101,120,99,101,112,116,105,111,110>>
\* "warn"
s_warn == <<119,97,114,110>>
\* "debug"
s_debug == <<100,101,98,117,103>>
\* "INFO"
s_INFO == <<73,78,70,79>>
\* "ERROR"
s_ERROR == <<69,82,82,79,82>>
\* "WARN"
s_WARN == <<87,65,82,78>>
\* "DEBUG"
s_DEBUG == <<68,69,66,85,71>>
\* "SQL: "
s_SQL == <<83,81,76,58,32>>
\* "STATEMENT"
s_STATEMENT == <<83,84,65,84,69,77,69,78,84>>
\* " GMT ["
s_GMT == <<32,71,77,84,32,91>>
\* "] "
s_close == <<93,32>>

(***************************************************************************)
(* Regular expressions: a program is a sequence of instructions.           *)
(*   rep   set lo hi : greedy repetition of a character class (hi = -1:    *)
(*                     unbounded), longest first, backtracking to lo       *)
(*   lit   str       : a literal string                                    *)
(*   save  n         : record the position in capture slot n               *)
(*   split x y       : try ip+x first, then ip+y (greedy ?, |)             *)
(*   jmp   x         : continue at ip+x                                    *)
(*   bol / eol       : ^ and $ (no multi-line flag: start / end of text)   *)
(*   match                                                                 *)
(***************************************************************************)
Ins == [op |-> "", set |-> {}, lo |-> 0, hi |-> 0, str |-> <<>>, n |-> 0, x |-> 0, y |-> 0]

Rep(set, lo, hi) == <<[Ins EXCEPT !.op = "rep", !.set = set, !.lo = lo, !.hi = hi]>>
Lit(str) == <<[Ins EXCEPT !.op = "lit", !.str = str]>>
Ch(c) == Lit(<<c>>)
Grp(n, body) ==
  <<[Ins EXCEPT !.op = "save", !.n = 2 * n - 1]>> \o body \o <<[Ins EXCEPT !.op = "save", !.n = 2 * n]>>
Opt(body) == <<[Ins EXCEPT !.op = "split", !.x = 1, !.y = Len(body) + 1]>> \o body
Alt(a, b) ==
  <<[Ins EXCEPT !.op = "split", !.x = 1, !.y = Len(a) + 2]>> \o a
    \o <<[Ins EXCEPT !.op = "jmp", !.x = Len(b) + 1]>> \o b
Bol == <<[Ins EXCEPT !.op = "bol"]>>
Eol == <<[Ins EXCEPT !.op = "eol"]>>
MatchIns == <<[Ins EXCEPT !.op = "match"]>>

NoMatch == [ok |-> FALSE, caps |-> <<>>, start |-> 0, end |-> 0]

\* number of consecutive characters of set in s from position pos
RunLen(s, pos, set) ==
  LET stops == {j \in pos..Len(s) : s[j] \notin set}
  IN  IF stops = {} THEN Len(s) - pos + 1
      ELSE (CHOOSE j \in stops : \A k \in stops : j <= k) - pos

RECURSIVE Run(_, _, _, _, _), TryRep(_, _, _, _, _, _, _)
Run(re, s, ip, pos, caps) ==
  LET ins == re[ip] IN
  CASE ins.op = "match" -> [ok |-> TRUE, caps |-> caps, start |-> 0, end |-> pos]
    [] ins.op = "bol" -> IF pos = 1 THEN Run(re, s, ip + 1, pos, caps) ELSE NoMatch
    [] ins.op = "eol" -> IF pos = Len(s) + 1 THEN Run(re, s, ip + 1, pos, caps) ELSE NoMatch
    [] ins.op = "lit" ->
         IF pos + Len(ins.str) - 1 <= Len(s) /\ SubSeq(s, pos, pos + Len(ins.str) - 1) = ins.str
         THEN Run(re, s, ip + 1, pos + Len(ins.str), caps)
         ELSE NoMatch
    [] ins.op = "rep" ->
         LET avail == RunLen(s, pos, ins.set)
             top == IF ins.hi = -1 THEN avail ELSE Min(avail, ins.hi)
         IN  IF top < ins.lo THEN NoMatch ELSE TryRep(re, s, ip, pos, caps, top, ins.lo)
    [] ins.op = "save" -> Run(re, s, ip + 1, pos, [caps EXCEPT ![ins.n] = pos])
    [] ins.op = "split" ->
         LET r == Run(re, s, ip + ins.x, pos, caps)
         IN  IF r.ok THEN r ELSE Run(re, s, ip + ins.y, pos, caps)
    [] ins.op = "jmp" -> Run(re, s, ip + ins.x, pos, caps)
TryRep(re, s, ip, pos, caps, k, lo) ==
  LET r == Run(re, s, ip + 1, pos + k, caps)
  IN  IF r.ok THEN r
      ELSE IF k = lo THEN NoMatch
      ELSE TryRep(re, s, ip, pos, caps, k - 1, lo)

\* leftmost match: the first start position from which the program matches
RECURSIVE FindFrom(_, _, _, _)
FindFrom(re, ng, s, start) ==
  IF start > Len(s) + 1 THEN NoMatch
  ELSE LET r == Run(re \o MatchIns, s, 1, start, [i \in 1..(2 * ng) |-> 0])
       IN  IF r.ok THEN [r EXCEPT !.start = start]
           ELSE FindFrom(re, ng, s, start + 1)

\* regexp.FindStringSubmatch: ok = (result # nil); m[0] the match, m[k] group k
\* ("" for a group that did not take part)
FindStringSubmatch(re, ng, s) ==
  LET r == FindFrom(re, ng, s, 1)
  IN  [ok |-> r.ok,
       m |-> [k \in 0..ng |->
                IF ~r.ok THEN <<>>
                ELSE IF k = 0 THEN SubSeq(s, r.start, r.end - 1)
                ELSE IF r.caps[2 * k - 1] = 0 \/ r.caps[2 * k] = 0 THEN <<>>
                ELSE SubSeq(s, r.caps[2 * k - 1], r.caps[2 * k] - 1)]]


(***************************************************************************)
(* LogEntry and the patterns of parseUniversalLog                          *)
(***************************************************************************)
\* type LogEntry: the zero value
LogEntry == [Time |-> <<>>, Level |-> <<>>, Message |-> <<>>, JobID |-> <<>>, Error |-> <<>>, Raw |-> <<>>]

D2 == Rep(Digit, 2, 2)
D4 == Rep(Digit, 4, 4)
\* \d{2}:\d{2}:\d{2}
ReClock == D2 \o Ch(58) \o D2 \o Ch(58) \o D2
\* \d{4}-\d{2}-\d{2}
ReDate == D4 \o Ch(45) \o D2 \o Ch(45) \o D2
\* \d{4}-\d{2}-\d{2}T\d{2}:\d{2}:\d{2}(?:\.\d+)?Z
ReDockerTs == ReDate \o Ch(84) \o ReClock \o Opt(Ch(46) \o Rep(Digit, 1, -1)) \o Ch(90)
\* \d{4}-\d{2}-\d{2} \d{2}:\d{2}:\d{2}\.\d{3}
RePgTs == ReDate \o Ch(32) \o ReClock \o Ch(46) \o Rep(Digit, 3, 3)
\* \s+   \s*   \w+   .+
ReSp1 == Rep(SpaceCh, 1, -1)
ReSp0 == Rep(SpaceCh, 0, -1)
ReWord == Rep(WordCh, 1, -1)
ReRest == Rep(AnyCh, 1, -1)

\* ^(DockerTs)\s+(PgTs) GMT \[(\d+)\] (\w+):\s*(.+)$
RePgDocker ==
  Bol \o Grp(1, ReDockerTs) \o ReSp1 \o Grp(2, RePgTs) \o Lit(s_GMT) \o Grp(3, Rep(Digit, 1, -1))
      \o Lit(s_close) \o Grp(4, ReWord) \o Ch(58) \o ReSp0 \o Grp(5, ReRest) \o Eol
\* ^(DockerTs)\s+(PgTs) GMT \[(\d+)\] (STATEMENT):\s*(.+)$
RePgStatement ==
  Bol \o Grp(1, ReDockerTs) \o ReSp1 \o Grp(2, RePgTs) \o Lit(s_GMT) \o Grp(3, Rep(Digit, 1, -1))
      \o Lit(s_close) \o Grp(4, Lit(s_STATEMENT)) \o Ch(58) \o ReSp0 \o Grp(5, ReRest) \o Eol
\* ^(PgTs) GMT \[(\d+)\] (\w+):\s*(.+)$
RePgPlain ==
  Bol \o Grp(1, RePgTs) \o Lit(s_GMT) \o Grp(2, Rep(Digit, 1, -1))
      \o Lit(s_close) \o Grp(3, ReWord) \o Ch(58) \o ReSp0 \o Grp(4, ReRest) \o Eol
\* ^(DockerTs)\s+(\w+)\s+(\d{2}:\d{2}:\d{2}\.\d{2})\s+(\w+)\s+(.+)$
RePrefixDocker ==
  Bol \o Grp(1, ReDockerTs) \o ReSp1 \o Grp(2, ReWord) \o ReSp1
      \o Grp(3, ReClock \o Ch(46) \o D2) \o ReSp1 \o Grp(4, ReWord) \o ReSp1 \o Grp(5, ReRest) \o Eol
\* ^(\w+)\s+(\d{2}:\d{2}:\d{2}\.\d{2})\s+(\w+)\s+(.+)$
RePrefixPlain ==
  Bol \o Grp(1, ReWord) \o ReSp1 \o Grp(2, ReClock \o Ch(46) \o D2) \o ReSp1
      \o Grp(3, ReWord) \o ReSp1 \o Grp(4, ReRest) \o Eol
\* ^(DockerTs)$
ReDockerOnly == Bol \o Grp(1, ReDockerTs) \o Eol
\* ^(DockerTs)?\s*\[(\w+)\]\s*(.+)$
ReBracketLevel ==
  Bol \o Opt(Grp(1, ReDockerTs)) \o ReSp0 \o Ch(91) \o Grp(2, ReWord) \o Ch(93)
      \o ReSp0 \o Grp(3, ReRest) \o Eol
\* ^(\d{2}:\d{2}:\d{2}(?:\.\d{3})?)\s+\[(\w+)\]\s+(.+)$
ReClockBracket ==
  Bol \o Grp(1, ReClock \o Opt(Ch(46) \o Rep(Digit, 3, 3))) \o ReSp1 \o Ch(91) \o Grp(2, ReWord)
      \o Ch(93) \o ReSp1 \o Grp(3, ReRest) \o Eol
\* ^(DockerTs)\s+(.+)$
ReDockerText == Bol \o Grp(1, ReDockerTs) \o ReSp1 \o Grp(2, ReRest) \o Eol
\* ^(\d{4}-\d{2}-\d{2} \d{2}:\d{2}:\d{2})\s+(.+)$
ReDateText == Bol \o Grp(1, ReDate \o Ch(32) \o ReClock) \o ReSp1 \o Grp(2, ReRest) \o Eol
\* ^(\d{2}:\d{2}:\d{2}(?:\.\d{2,3})?)\s+(.+)$
ReClockText ==
  Bol \o Grp(1, ReClock \o Opt(Ch(46) \o Rep(Digit, 2, 3))) \o ReSp1 \o Grp(2, ReRest) \o Eol
\* (DockerTs|\d{4}-\d{2}-\d{2} \d{2}:\d{2}:\d{2}(?:\.\d+)?|\d{2}:\d{2}:\d{2}(?:\.\d+)?)
timePattern ==
  Grp(1, Alt(ReDockerTs,
             Alt(ReDate \o Ch(32) \o ReClock \o Opt(Ch(46) \o Rep(Digit, 1, -1)),
                 ReClock \o Opt(Ch(46) \o Rep(Digit, 1, -1)))))

\* the keyword scan of the Docker-timestamp form and of the last fallback
levelScanException(message) ==
  LET messageLower == ToLower(message) IN
  IF Contains(messageLower, s_error) \/ Contains(messageLower, s_failed)
       \/ Contains(messageLower, s_exception) THEN s_ERROR
  ELSE IF Contains(messageLower, s_warn) THEN s_WARN
  ELSE IF Contains(messageLower, s_debug) THEN s_DEBUG
  ELSE s_INFO

\* the keyword scan of the date-time form, the bare-time form and the
\* embedded-timestamp fallback
levelScan(message) ==
  LET messageLower == ToLower(message) IN
  IF Contains(messageLower, s_error) \/ Contains(messageLower, s_failed) THEN s_ERROR
  ELSE IF Contains(messageLower, s_warn) THEN s_WARN
  ELSE IF Contains(messageLower, s_debug) THEN s_DEBUG
  ELSE s_INFO

\* patterns: the regex of each entry and its number of groups, in source order
patterns ==
  << [regex |-> RePgDocker, ng |-> 5], [regex |-> RePgStatement, ng |-> 5],
     [regex |-> RePgPlain, ng |-> 4], [regex |-> RePrefixDocker, ng |-> 5],
     [regex |-> RePrefixPlain, ng |-> 4], [regex |-> ReDockerOnly, ng |-> 1],
     [regex |-> ReBracketLevel, ng |-> 3], [regex |-> ReClockBracket, ng |-> 3],
     [regex |-> ReDockerText, ng |-> 2], [regex |-> ReDateText, ng |-> 2],
     [regex |-> ReClockText, ng |-> 2] >>

\* patterns[k].parse(matches)
patternParse(k, matches) ==
  CASE k = 1 -> [LogEntry EXCEPT !.Time = matches[1], !.Level = matches[4],
                                 !.Message = matches[5], !.JobID = matches[3]]
    [] k = 2 -> [LogEntry EXCEPT !.Time = matches[1], !.Level = s_INFO,
                                 !.Message = s_SQL \o matches[5], !.JobID = matches[3]]
    [] k = 3 -> [LogEntry EXCEPT !.Time = matches[1], !.Level = matches[3],
                                 !.Message = matches[4], !.JobID = matches[2]]
    [] k = 4 -> [LogEntry EXCEPT !.Time = matches[1], !.Level = matches[4],
                                 !.Message = matches[5], !.JobID = matches[2]]
    [] k = 5 -> [LogEntry EXCEPT !.Time = matches[2], !.Level = matches[3],
                                 !.Message = matches[4], !.JobID = matches[1]]
    [] k = 6 -> [LogEntry EXCEPT !.Time = matches[1], !.Level = s_INFO, !.Message = <<>>]
    [] k = 7 -> [LogEntry EXCEPT !.Time = matches[1], !.Level = matches[2], !.Message = matches[3]]
    [] k = 8 -> [LogEntry EXCEPT !.Time = matches[1], !.Level = matches[2], !.Message = matches[3]]
    [] k = 9 -> [LogEntry EXCEPT !.Time = matches[1], !.Level = levelScanException(matches[2]),
                                 !.Message = matches[2]]
    [] k = 10 -> [LogEntry EXCEPT !.Time = matches[1], !.Level = levelScan(matches[2]),
                                  !.Message = matches[2]]
    [] k = 11 -> [LogEntry EXCEPT !.Time = matches[1], !.Level = levelScan(matches[2]),
                                  !.Message = matches[2]]

\* the index of the first pattern from k on that matches line, 0 when none does
RECURSIVE firstPattern(_, _)
firstPattern(line, k) ==
  IF k > Len(patterns) THEN 0
  ELSE IF FindStringSubmatch(patterns[k].regex, patterns[k].ng, line).ok THEN k
  ELSE firstPattern(line, k + 1)

\* the two fallbacks after the pattern loop
universalFallback(line) ==
  LET timeMatch == FindStringSubmatch(timePattern, 1, line) IN
  IF timeMatch.ok
  THEN LET message == TrimSpace(RemoveFirst(line, timeMatch.m[1]))
       IN  [LogEntry EXCEPT !.Time = timeMatch.m[1], !.Level = levelScan(message),
                            !.Message = message]
  ELSE [LogEntry EXCEPT !.Level = levelScanException(line), !.Message = line]

parseUniversalLog(rawLine) ==
  LET line == TrimSpace(rawLine)
      k == firstPattern(line, 1)
  IN  IF k # 0
      THEN patternParse(k, FindStringSubmatch(patterns[k].regex, patterns[k].ng, line).m)
      ELSE universalFallback(line)

(***************************************************************************)
(* encoding/json: Unmarshal of the text from the first '{' into LogEntry.  *)
(* Modelled grammar: objects, strings without escapes, integers, true,     *)
(* false, null, with JSON white space; the input lines of the model stay   *)
(* inside it.                                                              *)
(***************************************************************************)
\* "time", "level", "msg", "jobid", "error", "raw": the struct's JSON names, folded
s_time == <<116,105,109,101>>
s_level == <<108,101,118,101,108>>
s_msg == <<109,115,103>>
s_jobid == <<106,111,98,105,100>>
s_raw == <<114,97,119>>
\* "true", "false", "null"
s_true == <<116,114,117,101>>
s_false == <<102,97,108,115,101>>
s_null == <<110,117,108,108>>

JsonWs == {9, 10, 13, 32}
At(s, pos) == IF pos >= 1 /\ pos <= Len(s) THEN s[pos] ELSE -1
skipWs(s, pos) == pos + RunLen(s, pos, JsonWs)
HasAt(s, pos, str) == pos + Len(str) - 1 <= Len(s) /\ SubSeq(s, pos, pos + Len(str) - 1) = str

JsonFail == [ok |-> FALSE, end |-> 0, kind |-> "", str |-> <<>>, members |-> <<>>]

\* a string literal starting at the quote at pos
jsonString(s, pos) ==
  LET n == RunLen(s, pos + 1, (32..255) \ {34, 92})
  IN  IF At(s, pos) = 34 /\ At(s, pos + 1 + n) = 34
      THEN [JsonFail EXCEPT !.ok = TRUE, !.end = pos + n + 2, !.kind = "string",
                            !.str = SubSeq(s, pos + 1, pos + n)]
      ELSE JsonFail

\* an integer literal starting at pos
jsonNumber(s, pos) ==
  LET p == IF At(s, pos) = 45 THEN pos + 1 ELSE pos
      n == RunLen(s, p, Digit)
  IN  IF n = 0 \/ (n > 1 /\ At(s, p) = 48) THEN JsonFail
      ELSE [JsonFail EXCEPT !.ok = TRUE, !.end = p + n, !.kind = "number"]

RECURSIVE jsonValue(_, _), jsonMembers(_, _, _)
\* the value starting at pos (white space already skipped)
jsonValue(s, pos) ==
  CASE At(s, pos) = 34 -> jsonString(s, pos)
    [] At(s, pos) = 123 ->
         LET p == skipWs(s, pos + 1)
         IN  IF At(s, p) = 125
             THEN [JsonFail EXCEPT !.ok = TRUE, !.end = p + 1, !.kind = "object"]
             ELSE jsonMembers(s, p, <<>>)
    [] HasAt(s, pos, s_true) -> [JsonFail EXCEPT !.ok = TRUE, !.end = pos + 4, !.kind = "bool"]
    [] HasAt(s, pos, s_false) -> [JsonFail EXCEPT !.ok = TRUE, !.end = pos + 5, !.kind = "bool"]
    [] HasAt(s, pos, s_null) -> [JsonFail EXCEPT !.ok = TRUE, !.end = pos + 4, !.kind = "null"]
    [] OTHER -> jsonNumber(s, pos)
\* the members of an object from the key at pos to the closing brace
jsonMembers(s, pos, acc) ==
  LET key == jsonString(s, pos)
      colon == skipWs(s, key.end)
      val == jsonValue(s, skipWs(s, colon + 1))
      after == skipWs(s, val.end)
      all == Append(acc, [key |-> key.str, kind |-> val.kind, str |-> val.str])
  IN  IF ~key.ok \/ At(s, colon) # 58 THEN JsonFail
      ELSE IF ~val.ok THEN JsonFail
      ELSE IF At(s, after) = 125
           THEN [JsonFail EXCEPT !.ok = TRUE, !.end = after + 1, !.kind = "object", !.members = all]
      ELSE IF At(s, after) = 44 THEN jsonMembers(s, skipWs(s, after + 1), all)
      ELSE JsonFail

\* the struct field a key decodes into (names are matched case-insensitively;
\* Raw has no tag, so its JSON name is "Raw")
fieldOf(key) ==
  LET k == ToLower(key) IN
  CASE k = s_time -> "Time"
    [] k = s_level -> "Level"
    [] k = s_msg -> "Message"
    [] k = s_jobid -> "JobID"
    [] k = s_error -> "Error"
    [] k = s_raw -> "Raw"
    [] OTHER -> ""

\* the members decoded in order into entry; err: a value of a non-string type
\* met a string field (UnmarshalTypeError, reported after decoding goes on)
RECURSIVE decodeMembers(_, _, _, _)
decodeMembers(members, i, entry, err) ==
  IF i > Len(members) THEN [err |-> err, entry |-> entry]
  ELSE LET mem == members[i]
           f == fieldOf(mem.key)
       IN  IF f = "" \/ mem.kind = "null" THEN decodeMembers(members, i + 1, entry, err)
           ELSE IF mem.kind = "string"
                THEN decodeMembers(members, i + 1, [entry EXCEPT ![f] = mem.str], err)
           ELSE decodeMembers(members, i + 1, entry, TRUE)

\* json.Unmarshal([]byte(data), &logEntry) with logEntry the zero value
Unmarshal(data) ==
  LET v == jsonValue(data, skipWs(data, 1))
  IN  IF ~v.ok \/ skipWs(data, v.end) # Len(data) + 1 THEN [err |-> TRUE, entry |-> LogEntry]
      ELSE IF v.kind # "object" THEN [err |-> TRUE, entry |-> LogEntry]
      ELSE decodeMembers(v.members, 1, LogEntry, FALSE)

(***************************************************************************)
(* parseLogLine                                                            *)
(***************************************************************************)
\* mutant of stripPrefix: 8 bytes dropped whatever the first is
stripPrefixAny(line) ==
  IF Len(line) >= 8 THEN Drop(line, 8) ELSE line

\* the Docker stream-multiplex prefix: 8 bytes dropped when the first is 1 or 2
stripPrefix(line) ==
  IF Len(line) >= 8 /\ (line[1] = 1 \/ line[1] = 2) THEN Drop(line, 8) ELSE line

\* mutant of parseLogLine: the text before the '{' replaces the object's time
parseLogLineStamp(rawLine) ==
  LET line == TrimSpace(stripPrefix(rawLine))
      jsonStart == Index(line, <<123>>)
      dockerTimestamp == IF jsonStart > 0 THEN TrimSpace(Take(line, jsonStart)) ELSE <<>>
      res == IF jsonStart # -1 THEN Unmarshal(Drop(line, jsonStart)) ELSE [err |-> TRUE, entry |-> LogEntry]
  IN  IF jsonStart # -1 /\ ~res.err
      THEN IF dockerTimestamp # <<>>
           THEN [res.entry EXCEPT !.Time = dockerTimestamp]
           ELSE res.entry
      ELSE parseUniversalLog(line)

parseLogLine(rawLine) ==
  LET line == TrimSpace(stripPrefix(rawLine))
      jsonStart == Index(line, <<123>>)
      dockerTimestamp == IF jsonStart > 0 THEN TrimSpace(Take(line, jsonStart)) ELSE <<>>
      res == IF jsonStart # -1 THEN Unmarshal(Drop(line, jsonStart)) ELSE [err |-> TRUE, entry |-> LogEntry]
  IN  IF jsonStart # -1 /\ ~res.err
      THEN IF res.entry.Time = <<>> /\ dockerTimestamp # <<>>
           THEN [res.entry EXCEPT !.Time = dockerTimestamp]
           ELSE res.entry
      ELSE parseUniversalLog(line)

(***************************************************************************)
(* isErrorLog                                                              *)
(***************************************************************************)
errorKeywords ==
  << <<101,114,114,111,114>>,
     <<101,120,99,101,112,116,105,111,110>>,
     <<102,97,105,108,101,100>>,
     <<102,97,105,108,117,114,101>>,
     <<112,97,110,105,99>>,
     <<102,97,116,97,108>>,
     <<208,190,209,136,208,184,208,177,208,186,208,176>>,
     <<208,184,209,129,208,186,208,187,209,142,209,135,208,181,208,189,208,184,208,181>>,
     <<209,129,208,177,208,190,208,185>>,
     <<208,186,209,128,208,184,209,130,208,184,209,135,208,181,209,129,208,186,208,176,209,143,32,208,190,209,136,208,184,208,177,208,186,208,176>>,
     <<115,116,97,99,107,32,116,114,97,99,101>>,
     <<116,114,97,99,101,98,97,99,107>>,
     <<99,114,97,115,104>>,
     <<115,101,103,109,101,110,116,97,116,105,111,110,32,102,97,117,108,116>>,
     <<116,105,109,101,111,117,116>>,
     <<99,111,110,110,101,99,116,105,111,110,32,114,101,102,117,115,101,100>>,
     <<112,101,114,109,105,115,115,105,111,110,32,100,101,110,105,101,100>>,
     <<110,111,116,32,102,111,117,110,100>>,
     <<97,108,114,101,97,100,121,32,101,120,105,115,116,115>>,
     <<105,110,118,97,108,105,100>>,
     <<109,97,108,102,111,114,109,101,100>> >>

hasErrorKeyword(text) == \E i \in 1..Len(errorKeywords) : Contains(text, errorKeywords[i])

isErrorLog(entry) ==
  \/ ToUpper(entry.Level) = s_ERROR
  \/ entry.Error # <<>>
  \/ hasErrorKeyword(ToLower(entry.Message))
  \/ (entry.Raw # <<>> /\ hasErrorKeyword(ToLower(entry.Raw)))

\* "WARNING"
s_WARNING == <<87,65,82,78,73,78,71>>
\* "ERR"
s_ERR == <<69,82,82>>
\* "INFORMATION"
s_INFORMATION == <<73,78,70,79,82,77,65,84,73,79,78>>
\* "DBG"
s_DBG == <<68,66,71>>
\* "LOG"
s_LOG == <<76,79,71>>
\* "STMT"
s_STMT == <<83,84,77,84>>
\* "NOTICE"
s_NOTICE == <<78,79,84,73,67,69>>
\* "FATAL"
s_FATAL == <<70,65,84,65,76>>
\* "PANIC"
s_PANIC == <<80,65,78,73,67>>

\* mutant of normalizeLevel: a level outside the table is returned as given
normalizeLevelAsGiven(level) ==
  LET up == ToUpper(TrimSpace(level)) IN
  CASE up \in {s_WARNING, s_WARN} -> s_WARN
    [] up = s_ERR -> s_ERROR
    [] up = s_INFORMATION -> s_INFO
    [] up = s_DBG -> s_DEBUG
    [] up = s_LOG -> s_INFO
    [] up \in {s_STATEMENT, s_STMT} -> s_INFO
    [] up = s_NOTICE -> s_INFO
    [] up \in {s_FATAL, s_PANIC} -> s_ERROR
    [] OTHER -> IF up = <<>> THEN s_INFO ELSE level

\* mutant of normalizeLevel: the level is not trimmed before the table
normalizeLevelNoTrim(level) ==
  LET up == ToUpper(level) IN
  CASE up \in {s_WARNING, s_WARN} -> s_WARN
    [] up = s_ERR -> s_ERROR
    [] up = s_INFORMATION -> s_INFO
    [] up = s_DBG -> s_DEBUG
    [] up = s_LOG -> s_INFO
    [] up \in {s_STATEMENT, s_STMT} -> s_INFO
    [] up = s_NOTICE -> s_INFO
    [] up \in {s_FATAL, s_PANIC} -> s_ERROR
    [] OTHER -> IF up = <<>> THEN s_INFO ELSE up

\* func normalizeLevel(level string) string
normalizeLevel(level) ==
  LET up == ToUpper(TrimSpace(level)) IN
  CASE up \in {s_WARNING, s_WARN} -> s_WARN
    [] up = s_ERR -> s_ERROR
    [] up = s_INFORMATION -> s_INFO
    [] up = s_DBG -> s_DEBUG
    [] up = s_LOG -> s_INFO
    [] up \in {s_STATEMENT, s_STMT} -> s_INFO
    [] up = s_NOTICE -> s_INFO
    [] up \in {s_FATAL, s_PANIC} -> s_ERROR
    [] OTHER -> IF up = <<>> THEN s_INFO ELSE up

(***************************************************************************)
(* wrapText                                                                *)
(***************************************************************************)
\* strings.Fields: the maximal runs of characters that are not white space
RECURSIVE Fields(_)
Fields(str) ==
  IF str = <<>> THEN <<>>
  ELSE IF Head(str) \in TrimCh THEN Fields(Tail(str))
  ELSE LET stops == {i \in 1..Len(str) : str[i] \in TrimCh}
           n == IF stops = {} THEN Len(str)
                ELSE (CHOOSE i \in stops : \A j \in stops : i <= j) - 1
       IN  <<Take(str, n)>> \o Fields(Drop(str, n))

\* for len(word) > width { lines = append(lines, word[:width]); word = word[width:] }
\* (width > 0): the lines appended and what is left of the word
RECURSIVE splitWord(_, _)
splitWord(word, width) ==
  IF Len(word) > width
  THEN LET r == splitWord(Drop(word, width), width)
       IN  [lines |-> <<Take(word, width)>> \o r.lines, rest |-> r.rest]
  ELSE [lines |-> <<>>, rest |-> word]

\* the body of the loop over the words: acc is [lines, cur], cur being
\* currentLine
wrapWord(acc, word, width) ==
  IF Len(acc.cur) + Len(word) + 1 > width
  THEN LET flushed == IF Len(acc.cur) > 0 THEN Append(acc.lines, acc.cur) ELSE acc.lines
       IN  IF Len(word) > width
           THEN [lines |-> flushed \o splitWord(word, width).lines,
                 cur |-> splitWord(word, width).rest]
           ELSE [lines |-> flushed, cur |-> word]
  ELSE [lines |-> acc.lines,
        cur |-> (IF Len(acc.cur) > 0 THEN acc.cur \o <<32>> ELSE <<>>) \o word]

RECURSIVE wrapWords(_, _, _)
wrapWords(acc, words, width) ==
  IF words = <<>> THEN acc
  ELSE wrapWords(wrapWord(acc, Head(words), width), Tail(words), width)

\* the loop that splits a word, entered when len(word) > width:
\* word[:width] is out of range for width < 0 ("panic"); for width = 0 it
\* is empty, word[width:] is the word again and the loop does not end
\* ("hang"); for width > 0 the word gets shorter each time ("none")
splitFault(word, width) ==
  IF Len(word) > width
  THEN IF width < 0 THEN "panic" ELSE IF width = 0 THEN "hang" ELSE "none"
  ELSE "none"

\* the first fault of the loop over the words, "none" when it has none
RECURSIVE wrapWordsFault(_, _, _)
wrapWordsFault(acc, words, width) ==
  IF words = <<>> THEN "none"
  ELSE IF Len(acc.cur) + Len(Head(words)) + 1 > width /\ splitFault(Head(words), width) # "none"
  THEN splitFault(Head(words), width)
  ELSE wrapWordsFault(wrapWord(acc, Head(words), width), Tail(words), width)

\* how wrapText(text, width) ends: "none" when it returns
wrapFault(str, width) ==
  IF Len(str) <= width THEN "none"
  ELSE IF Fields(str) = <<>> THEN "none"
  ELSE wrapWordsFault([lines |-> <<>>, cur |-> <<>>], Fields(str), width)

\* func wrapText(text string, width int) []string, for width > 0 (with
\* width = 0 the loop that splits a word does not end, with width < 0
\* word[:width] is out of range)
wrapText(str, width) ==
  IF Len(str) <= width THEN <<str>>
  ELSE IF Fields(str) = <<>> THEN <<str>>
  ELSE LET acc == wrapWords([lines |-> <<>>, cur |-> <<>>], Fields(str), width)
       IN  IF Len(acc.cur) > 0 THEN Append(acc.lines, acc.cur) ELSE acc.lines

(***************************************************************************)
(* The Bubble Tea model: initialModel, Update, View                        *)
(***************************************************************************)
\* a message of the program: tea.WindowSizeMsg, tea.KeyMsg, logMsg, errorMsg, infoMsg
Msg == [type |-> "", width |-> 0, height |-> 0, key |-> "", entry |-> LogEntry, err |-> "", count |-> 0]
WindowSizeMsg(w, h) == [Msg EXCEPT !.type = "size", !.width = w, !.height = h]
KeyMsg(k) == [Msg EXCEPT !.type = "key", !.key = k]
logMsg(entry) == [Msg EXCEPT !.type = "log", !.entry = entry]
errorMsg(err) == [Msg EXCEPT !.type = "error", !.err = err]
infoMsg(n) == [Msg EXCEPT !.type = "info", !.count = n]

\* initialModel(containerID) with the terminal size w x h, then the two
\* assignments of RunLogs (showErrorsOnly, requestedTail); err = "" is nil
initialModel(containerID, w, h, errorsOnly, tail) ==
  [logEntries |-> <<>>, ready |-> FALSE, err |-> "", containerID |-> containerID,
   width |-> w, height |-> h, wrapLines |-> TRUE, showErrorsOnly |-> errorsOnly,
   logCount |-> 0, requestedTail |-> tail, scrollOffset |-> 0]

\* mutant of keyEnd: the end position is added to the current offset
keyEndFromOffset(md) ==
  [md EXCEPT !.scrollOffset = md.scrollOffset + Len(md.logEntries) - md.height + 5]

\* case "end", "G"
keyEnd(md) == [md EXCEPT !.scrollOffset = Len(md.logEntries) - md.height + 5]

\* case "up", "k"
keyUp(md) == IF md.scrollOffset > 0 THEN [md EXCEPT !.scrollOffset = md.scrollOffset - 1] ELSE md

\* case "pageup"
keyPageUp(md) ==
  IF md.scrollOffset > md.height
  THEN [md EXCEPT !.scrollOffset = md.scrollOffset - md.height]
  ELSE [md EXCEPT !.scrollOffset = 0]

\* mutant of autoFollow: follows only when the offset was already at the tail
autoFollowAtTail(md) ==
  IF Len(md.logEntries) > md.height - 3
       /\ md.scrollOffset >= Len(md.logEntries) - 1 - (md.height - 3)
  THEN [md EXCEPT !.scrollOffset = Len(md.logEntries) - (md.height - 3)]
  ELSE md

\* the automatic scroll to the end after a new entry
autoFollow(md) ==
  IF Len(md.logEntries) > md.height - 3
  THEN [md EXCEPT !.scrollOffset = Len(md.logEntries) - (md.height - 3)]
  ELSE md

\* mutant of updateLog: an entry equal to the last buffered one is not appended
updateLogDedup(md, entry) ==
  IF md.logEntries # <<>> /\ md.logEntries[Len(md.logEntries)] = entry
  THEN [md EXCEPT !.ready = TRUE]
  ELSE autoFollow([md EXCEPT !.ready = TRUE,
                             !.logEntries = Append(md.logEntries, entry),
                             !.logCount = md.logCount + 1])

\* mutant of updateLog: a new entry clears a recorded error
updateLogRecover(md, entry) ==
  autoFollow([md EXCEPT !.ready = TRUE,
                        !.err = "",
                        !.logEntries = Append(md.logEntries, entry),
                        !.logCount = md.logCount + 1])

\* case logMsg
updateLog(md, entry) ==
  autoFollow([md EXCEPT !.ready = TRUE,
                        !.logEntries = Append(md.logEntries, entry),
                        !.logCount = md.logCount + 1])

\* mutant of updateKey: the quit keys are ignored while the logs are loading
updateKeyWhenReady(md, key) ==
  CASE key \in {"ctrl+c", "q"} -> [m |-> md, cmd |-> IF md.ready THEN "quit" ELSE "nil"]
    [] key = "w" -> [m |-> [md EXCEPT !.wrapLines = ~md.wrapLines], cmd |-> "nil"]
    [] key = "e" -> [m |-> [md EXCEPT !.showErrorsOnly = ~md.showErrorsOnly], cmd |-> "nil"]
    [] key \in {"up", "k"} -> [m |-> keyUp(md), cmd |-> "nil"]
    [] key \in {"down", "j"} -> [m |-> [md EXCEPT !.scrollOffset = md.scrollOffset + 1], cmd |-> "nil"]
    [] key \in {"home", "g"} -> [m |-> [md EXCEPT !.scrollOffset = 0], cmd |-> "nil"]
    [] key \in {"end", "G"} -> [m |-> keyEnd(md), cmd |-> "nil"]
    [] key = "pageup" -> [m |-> keyPageUp(md), cmd |-> "nil"]
    [] key = "pagedown" -> [m |-> [md EXCEPT !.scrollOffset = md.scrollOffset + md.height], cmd |-> "nil"]
    [] OTHER -> [m |-> md, cmd |-> "nil"]

\* mutant of updateKey: down stops at the last record of the buffer
updateKeyClampDown(md, key) ==
  CASE key \in {"ctrl+c", "q"} -> [m |-> md, cmd |-> "quit"]
    [] key = "w" -> [m |-> [md EXCEPT !.wrapLines = ~md.wrapLines], cmd |-> "nil"]
    [] key = "e" -> [m |-> [md EXCEPT !.showErrorsOnly = ~md.showErrorsOnly], cmd |-> "nil"]
    [] key \in {"up", "k"} -> [m |-> keyUp(md), cmd |-> "nil"]
    [] key \in {"down", "j"} ->
         [m |-> [md EXCEPT !.scrollOffset = Min(md.scrollOffset + 1, Max(Len(md.logEntries) - 1, 0))],
          cmd |-> "nil"]
    [] key \in {"home", "g"} -> [m |-> [md EXCEPT !.scrollOffset = 0], cmd |-> "nil"]
    [] key \in {"end", "G"} -> [m |-> keyEnd(md), cmd |-> "nil"]
    [] key = "pageup" -> [m |-> keyPageUp(md), cmd |-> "nil"]
    [] key = "pagedown" -> [m |-> [md EXCEPT !.scrollOffset = md.scrollOffset + md.height], cmd |-> "nil"]
    [] OTHER -> [m |-> md, cmd |-> "nil"]

\* mutant of updateKey: the filter key also scrolls back to the first record
updateKeyFilterHome(md, key) ==
  CASE key \in {"ctrl+c", "q"} -> [m |-> md, cmd |-> "quit"]
    [] key = "w" -> [m |-> [md EXCEPT !.wrapLines = ~md.wrapLines], cmd |-> "nil"]
    [] key = "e" -> [m |-> [md EXCEPT !.showErrorsOnly = ~md.showErrorsOnly, !.scrollOffset = 0],
                     cmd |-> "nil"]
    [] key \in {"up", "k"} -> [m |-> keyUp(md), cmd |-> "nil"]
    [] key \in {"down", "j"} -> [m |-> [md EXCEPT !.scrollOffset = md.scrollOffset + 1], cmd |-> "nil"]
    [] key \in {"home", "g"} -> [m |-> [md EXCEPT !.scrollOffset = 0], cmd |-> "nil"]
    [] key \in {"end", "G"} -> [m |-> keyEnd(md), cmd |-> "nil"]
    [] key = "pageup" -> [m |-> keyPageUp(md), cmd |-> "nil"]
    [] key = "pagedown" -> [m |-> [md EXCEPT !.scrollOffset = md.scrollOffset + md.height], cmd |-> "nil"]
    [] OTHER -> [m |-> md, cmd |-> "nil"]

\* case tea.KeyMsg
updateKey(md, key) ==
  CASE key \in {"ctrl+c", "q"} -> [m |-> md, cmd |-> "quit"]
    [] key = "w" -> [m |-> [md EXCEPT !.wrapLines = ~md.wrapLines], cmd |-> "nil"]
    [] key = "e" -> [m |-> [md EXCEPT !.showErrorsOnly = ~md.showErrorsOnly], cmd |-> "nil"]
    [] key \in {"up", "k"} -> [m |-> keyUp(md), cmd |-> "nil"]
    [] key \in {"down", "j"} -> [m |-> [md EXCEPT !.scrollOffset = md.scrollOffset + 1], cmd |-> "nil"]
    [] key \in {"home", "g"} -> [m |-> [md EXCEPT !.scrollOffset = 0], cmd |-> "nil"]
    [] key \in {"end", "G"} -> [m |-> keyEnd(md), cmd |-> "nil"]
    [] key = "pageup" -> [m |-> keyPageUp(md), cmd |-> "nil"]
    [] key = "pagedown" -> [m |-> [md EXCEPT !.scrollOffset = md.scrollOffset + md.height], cmd |-> "nil"]
    [] OTHER -> [m |-> md, cmd |-> "nil"]

\* mutant of updateSize: the resize also scrolls back to the first record
updateSizeHome(md, w, h) == [md EXCEPT !.width = w, !.height = h, !.scrollOffset = 0]

\* case tea.WindowSizeMsg
updateSize(md, w, h) == [md EXCEPT !.width = w, !.height = h]

\* mutant of updateError: the error also empties the buffer
updateErrorClear(md, err) == [md EXCEPT !.err = err, !.ready = TRUE, !.logEntries = <<>>]

\* case errorMsg
updateError(md, err) == [md EXCEPT !.err = err, !.ready = TRUE]

\* func (m model) Update(msg tea.Msg) (tea.Model, tea.Cmd); infoMsg is ignored
Update(md, msg) ==
  CASE msg.type = "size" -> [m |-> updateSize(md, msg.width, msg.height), cmd |-> "nil"]
    [] msg.type = "key" -> updateKey(md, msg.key)
    [] msg.type = "log" -> [m |-> updateLog(md, msg.entry), cmd |-> "nil"]
    [] msg.type = "error" -> [m |-> updateError(md, msg.err), cmd |-> "nil"]
    [] OTHER -> [m |-> md, cmd |-> "nil"]

\* the entries that pass the error filter, in buffer order
RECURSIVE filterEntries(_, _)
filterEntries(entries, errorsOnly) ==
  IF entries = <<>> THEN <<>>
  ELSE IF errorsOnly /\ ~isErrorLog(Head(entries)) THEN filterEntries(Tail(entries), errorsOnly)
  ELSE <<Head(entries)>> \o filterEntries(Tail(entries), errorsOnly)

visibleEntries(md) == filterEntries(md.logEntries, md.showErrorsOnly)
availableHeight(md) == md.height - 3

\* end := start + availableHeight; if end > len(visibleEntries) { end = len(visibleEntries) }
\* (n is len(visibleEntries))
viewEnd(md, n) == Min(md.scrollOffset + availableHeight(md), n)

\* mutant of viewStart: a list that fits the window is shown from its first entry
viewStartFit(md, n) ==
  IF n <= availableHeight(md) THEN 0
  ELSE IF md.scrollOffset >= n THEN Max(n - 1, 0)
  ELSE md.scrollOffset

\* start := m.scrollOffset; if start >= len(visibleEntries) { start = len - 1; if start < 0 { start = 0 } }
viewStart(md, n) == IF md.scrollOffset >= n THEN Max(n - 1, 0) ELSE md.scrollOffset

\* func (m model) View() string, as far as the entries it formats: kind is
\* "error", "loading", "logs", or "panic" when an index or slice expression
\* is out of range: m.containerID[:12], visibleEntries[start:end], and
\* logLines[:availableHeight], which is evaluated whenever availableHeight
\* is negative (len(logLines) >= 0 > availableHeight)
View(md) ==
  LET none == [kind |-> "", start |-> 0, end |-> 0, entries |-> <<>>]
      vis == visibleEntries(md)
      start == viewStart(md, Len(vis))
      end == viewEnd(md, Len(vis))
  IN  IF md.err # "" THEN [none EXCEPT !.kind = "error"]
      ELSE IF ~md.ready THEN [none EXCEPT !.kind = "loading"]
      ELSE IF Len(md.containerID) < 12 THEN [none EXCEPT !.kind = "panic"]
      ELSE IF start < 0 \/ start > end THEN [none EXCEPT !.kind = "panic"]
      ELSE IF availableHeight(md) < 0 THEN [none EXCEPT !.kind = "panic"]
      ELSE [kind |-> "logs", start |-> start, end |-> end, entries |-> SubSeq(vis, start + 1, end)]

\* "jobID=", "error="
s_jobID_eq == <<106,111,98,73,68,61>>
s_error_eq == <<101,114,114,111,114,61>>

\* func extractMessage(entry LogEntry) string
extractMessage(entry) ==
  LET parts == (IF entry.Message # <<>> THEN <<entry.Message>> ELSE <<>>)
                 \o (IF entry.JobID # <<>> THEN <<s_jobID_eq \o entry.JobID>> ELSE <<>>)
                 \o (IF entry.Error # <<>> THEN <<s_error_eq \o entry.Error>> ELSE <<>>)
      join[i \in 0..Len(parts)] ==
        IF i = 0 THEN <<>>
        ELSE IF i = 1 THEN parts[1]
        ELSE join[i - 1] \o <<32>> \o parts[i]
  IN  IF parts = <<>> /\ entry.Raw # <<>> THEN entry.Raw ELSE join[Len(parts)]

\* style.Render(str) of lipgloss, and highlightErrorInMessage built on it,
\* with no colour profile: the text itself
Render(str) == str

\* finalLine of the loop over the selected entries: "HH:MM:SS.mmm [LEVEL]
\* message". stamp is what formatTime(entry.Time) returns, always a text
\* HH:MM:SS.mmm: the time of day of the timestamp, or the reading of
\* time.Now() when the record has none
finalLine(entry, stamp) ==
  Render(stamp) \o <<32>> \o Render(<<91>> \o normalizeLevel(entry.Level) \o <<93>>)
    \o <<32>> \o Render(extractMessage(entry))

\* logLines after the loop: one line per entry, or its wrapText lines (for
\* md.width > 2 when wrapping is on; see wrapFault for the other widths)
RECURSIVE logLines(_, _, _)
logLines(md, entries, stamps) ==
  IF entries = <<>> THEN <<>>
  ELSE (IF md.wrapLines
        THEN wrapText(finalLine(Head(entries), Head(stamps)), md.width - 2)
        ELSE <<finalLine(Head(entries), Head(stamps))>>)
         \o logLines(md, Tail(entries), Tail(stamps))

\* mutant of viewLines: the lines are not cut to the available height
viewLinesAll(md, stamps) == logLines(md, View(md).entries, stamps)

\* if len(logLines) > availableHeight { logLines = logLines[:availableHeight] }:
\* the display lines of View when it shows logs
viewLines(md, stamps) ==
  LET all == logLines(md, View(md).entries, stamps)
  IN  IF Len(all) > availableHeight(md) THEN Take(all, availableHeight(md)) ELSE all

(***************************************************************************)
(* The system: the log source, the pump (streamLogs), the signal handler   *)
(* of RunLogs, and the program loop that feeds Update and calls View.      *)
(***************************************************************************)
\* "[ERROR] boom"
line_error == <<91,69,82,82,79,82,93,32,98,111,111,109>>
\* "hello"
line_plain == <<104,101,108,108,111>>
\* "0123456789abcdef"
id_long == <<48,49,50,51,52,53,54,55,56,57,97,98,99,100,101,102>>
\* "db"
id_short == <<100,98>>

\* the lines the source of the system can produce
SysLines == <<line_error, line_plain>>
\* parseLogLine of each of them
classified == <<parseLogLine(SysLines[1]), parseLogLine(SysLines[2])>>

\* bounds of the model
MaxLines == 2
MaxScroll == 6
Heights == {2, 4, 7}
Widths == {80}
ContainerIDs == {id_long, id_short}
Keys == {"ctrl+c", "q", "w", "e", "up", "k", "down", "j", "home", "g", "end", "G",
         "pageup", "pagedown", "x"}

VARIABLES
  produced,   \* indices in SysLines of the lines the source has delivered to the scanner
  cancelled,  \* ctx.Done() is closed
  pc,         \* the pump's position in streamLogs
  cur,        \* index in SysLines of scanner.Text(), 0 when none
  lineCount,  \* streamLogs' lineCount
  scanErr,    \* scanner.Err() # nil
  stdout,     \* the counts printed by fmt.Printf("DEBUG: Read %d lines ...")
  msgs,       \* the messages sent with p.Send and not yet handled
  sent,       \* the kinds of all the messages sent with p.Send so far, in order
  m,          \* the program's model
  prog,       \* "running", "quit" (tea.Quit), "panic" (View faulted)
  input,      \* the line handed to the classifier (classifier specification)
  output,     \* [done, entry]: whether the classifier has run, and its result
  token,      \* the level handed to normalizeLevel (level specification)
  canon,      \* [done, level]: whether normalizeLevel has run, and its result
  wrapIn,     \* [text, width]: the arguments of wrapText (wrap specification)
  wrapOut     \* [done, lines, fault]: whether wrapText has returned, its result, and
              \* "none", "panic" (run-time fault) or "hang" (a loop that does not end)

vars == <<produced, cancelled, pc, cur, lineCount, scanErr, stdout, msgs, sent, m, prog, input, output, token, canon,
         wrapIn, wrapOut>>
pumpVars == <<produced, pc, cur, lineCount, scanErr, stdout, sent>>
viewerVars == <<m, prog>>
parseVars == <<input, output, token, canon, wrapIn, wrapOut>>

\* p.Send(msg)
Send(queue, msg) == Append(queue, msg)

\* a step of the pump that calls p.Send(msg), and one that does not
Emit(msg) == msgs' = Send(msgs, msg) /\ sent' = Append(sent, msg.type)
NoEmit == msgs' = msgs /\ sent' = sent

Running == prog = "running"

Init ==
  /\ produced = <<>>
  /\ cancelled = FALSE
  /\ pc = "client"
  /\ cur = 0
  /\ lineCount = 0
  /\ scanErr = FALSE
  /\ stdout = <<>>
  /\ msgs = <<>>
  /\ sent = <<>>
  /\ \E id \in ContainerIDs, w \in Widths, h \in Heights, errorsOnly \in BOOLEAN :
       m = initialModel(id, w, h, errorsOnly, 0)
  /\ prog = "running"
  /\ input = <<>>
  /\ output = [done |-> FALSE, entry |-> LogEntry]
  /\ token = <<>>
  /\ canon = [done |-> FALSE, level |-> <<>>]
  /\ wrapIn = [text |-> <<>>, width |-> 1]
  /\ wrapOut = [done |-> FALSE, lines |-> <<>>, fault |-> "none"]

\* RunLogs: the goroutine that waits for os.Interrupt / SIGTERM and calls cancel()
Interrupt ==
  /\ Running
  /\ ~cancelled
  /\ cancelled' = TRUE
  /\ UNCHANGED <<pumpVars, msgs, viewerVars, parseVars>>

\* client.NewClientWithOpts
PumpNewClient ==
  /\ Running
  /\ pc = "client"
  /\ \/ pc' = "inspect" /\ NoEmit
     \/ pc' = "done" /\ Emit(errorMsg("failed to create Docker client"))
  /\ UNCHANGED <<produced, cur, lineCount, scanErr, stdout, cancelled, viewerVars, parseVars>>

\* mutant of PumpInspect: the return after the error message is missing
PumpInspectNoReturn ==
  /\ Running
  /\ pc = "inspect"
  /\ \/ ~cancelled /\ pc' = "open" /\ NoEmit
     \/ pc' = "open" /\ Emit(errorMsg("container not found"))
  /\ UNCHANGED <<produced, cur, lineCount, scanErr, stdout, cancelled, viewerVars, parseVars>>

\* cli.ContainerInspect(ctx, containerID): fails when the container is not
\* found, and when ctx is cancelled
PumpInspect ==
  /\ Running
  /\ pc = "inspect"
  /\ \/ ~cancelled /\ pc' = "open" /\ NoEmit
     \/ pc' = "done" /\ Emit(errorMsg("container not found"))
  /\ UNCHANGED <<produced, cur, lineCount, scanErr, stdout, cancelled, viewerVars, parseVars>>

\* cli.ContainerLogs(ctx, containerID, ...)
PumpOpenLogs ==
  /\ Running
  /\ pc = "open"
  /\ \/ ~cancelled /\ pc' = "scan" /\ NoEmit
     \/ pc' = "done" /\ Emit(errorMsg("failed to get container logs"))
  /\ UNCHANGED <<produced, cur, lineCount, scanErr, stdout, cancelled, viewerVars, parseVars>>

\* scanner.Scan(): the next line, the end of the stream, or a read error (a
\* blocked read of a cancelled request fails with the context's error)
PumpScan ==
  /\ Running
  /\ pc = "scan"
  /\ \/ \E i \in 1..Len(SysLines) :
          /\ Len(produced) < MaxLines
          /\ produced' = Append(produced, i)
          /\ cur' = i
          /\ pc' = "select"
          /\ scanErr' = scanErr
     \/ /\ pc' = "print"
        /\ UNCHANGED <<produced, cur, scanErr>>
     \/ /\ pc' = "print"
        /\ scanErr' = TRUE
        /\ UNCHANGED <<produced, cur>>
  /\ UNCHANGED <<lineCount, stdout, cancelled, msgs, sent, viewerVars, parseVars>>

\* mutant of PumpSelect: a cancelled context makes the loop continue
PumpSelectContinue ==
  /\ Running
  /\ pc = "select"
  /\ \/ cancelled /\ pc' = "scan"
     \/ ~cancelled /\ pc' = "send"
  /\ UNCHANGED <<produced, cur, lineCount, scanErr, stdout, cancelled, msgs, sent, viewerVars, parseVars>>

\* select { case <-ctx.Done(): return; default: ... }
PumpSelect ==
  /\ Running
  /\ pc = "select"
  /\ \/ cancelled /\ pc' = "done"
     \/ ~cancelled /\ pc' = "send"
  /\ UNCHANGED <<produced, cur, lineCount, scanErr, stdout, cancelled, msgs, sent, viewerVars, parseVars>>

\* mutant of PumpSend: the line is sent but not counted
PumpSendNoCount ==
  /\ Running
  /\ pc = "send"
  /\ Emit(logMsg(classified[cur]))
  /\ lineCount' = lineCount
  /\ pc' = "scan"
  /\ UNCHANGED <<produced, cur, scanErr, stdout, cancelled, viewerVars, parseVars>>

\* line := scanner.Text(); logEntry := parseLogLine(line); p.Send(logMsg(logEntry)); lineCount++
PumpSend ==
  /\ Running
  /\ pc = "send"
  /\ Emit(logMsg(classified[cur]))
  /\ lineCount' = lineCount + 1
  /\ pc' = "scan"
  /\ UNCHANGED <<produced, cur, scanErr, stdout, cancelled, viewerVars, parseVars>>

\* fmt.Printf("DEBUG: Read %d lines from Docker API\n", lineCount)
PumpPrint ==
  /\ Running
  /\ pc = "print"
  /\ stdout' = Append(stdout, lineCount)
  /\ pc' = "info"
  /\ UNCHANGED <<produced, cur, lineCount, scanErr, cancelled, msgs, sent, viewerVars, parseVars>>

\* p.Send(infoMsg{...})
PumpSendInfo ==
  /\ Running
  /\ pc = "info"
  /\ Emit(infoMsg(lineCount))
  /\ pc' = "err"
  /\ UNCHANGED <<produced, cur, lineCount, scanErr, stdout, cancelled, viewerVars, parseVars>>

\* mutant of PumpCheckErr: after a read error the stream is opened again
PumpCheckErrRetry ==
  /\ Running
  /\ pc = "err"
  /\ IF scanErr THEN Emit(errorMsg("error reading logs")) ELSE NoEmit
  /\ pc' = IF scanErr THEN "open" ELSE "done"
  /\ UNCHANGED <<produced, cur, lineCount, scanErr, stdout, cancelled, viewerVars, parseVars>>

\* if err := scanner.Err(); err != nil { p.Send(errorMsg{...}) }
PumpCheckErr ==
  /\ Running
  /\ pc = "err"
  /\ IF scanErr THEN Emit(errorMsg("error reading logs")) ELSE NoEmit
  /\ pc' = "done"
  /\ UNCHANGED <<produced, cur, lineCount, scanErr, stdout, cancelled, viewerVars, parseVars>>

\* one turn of the program loop: Update, then View; a fault in View ends the
\* program, and so does the tea.Quit command
Handle(msg) ==
  LET r == Update(m, msg) IN
  /\ m' = r.m
  /\ prog' = IF View(r.m).kind = "panic" THEN "panic"
             ELSE IF r.cmd = "quit" THEN "quit"
             ELSE "running"

\* a message sent by the pump reaches Update
Deliver ==
  /\ Running
  /\ msgs # <<>>
  /\ Handle(Head(msgs))
  /\ msgs' = Tail(msgs)
  /\ UNCHANGED <<pumpVars, cancelled, parseVars>>

\* a key press; the model caps scrollOffset at MaxScroll
KeyPress ==
  /\ Running
  /\ \E k \in Keys :
       /\ (k \in {"down", "j"} => m.scrollOffset + 1 <= MaxScroll)
       /\ (k = "pagedown" => m.scrollOffset + m.height <= MaxScroll)
       /\ Handle(KeyMsg(k))
  /\ UNCHANGED <<pumpVars, cancelled, msgs, parseVars>>

\* a terminal resize
Resize ==
  /\ Running
  /\ \E w \in Widths, h \in Heights : Handle(WindowSizeMsg(w, h))
  /\ UNCHANGED <<pumpVars, cancelled, msgs, parseVars>>

Next ==
  \/ Interrupt
  \/ PumpNewClient \/ PumpInspect \/ PumpOpenLogs
  \/ PumpScan \/ PumpSelect \/ PumpSend
  \/ PumpPrint \/ PumpSendInfo \/ PumpCheckErr
  \/ Deliver \/ KeyPress \/ Resize

Spec == Init /\ [][Next]_vars

(***************************************************************************)
(* The classifier on its own: one raw line in, one LogEntry out.           *)
(***************************************************************************)
\* line bodies: the formats of the pattern chain, the JSON cases, the fallbacks
Bodies ==
  <<
     \* ""
     <<>>,
     \* "   "
     <<32,32,32>>,
     \* "2025-07-19T00:26:48.124332552Z"
     <<50,48,50,53,45,48,55,45,49,57,84,48,48,58,50,54,58,52,56,46,49,50,52,51,51,50,53,53,50,90>>,
     \* "{\"time\":\"2025-01-01T00:00:00Z\",\"level\":\"warn\",\"msg\":\"disk low\"}"
     <<123,34,116,105,109,101,34,58,34,50,48,50,53,45,48,49,45,48,49,84,48,48,58,48,48,58,48,48,90,34,44,34,108,101,118,101,108,34,58,34,119,97,114,110,34,44,34,109,115,103,34,58,34,100,105,115,107,32,108,111,119,34,125>>,
     \* "2025-07-19T00:26:48.1Z {\"level\":\"info\"}"
     <<50,48,50,53,45,48,55,45,49,57,84,48,48,58,50,54,58,52,56,46,49,90,32,123,34,108,101,118,101,108,34,58,34,105,110,102,111,34,125>>,
     \* "{\"level\":\"info\",\"message\":\"hello\"}"
     <<123,34,108,101,118,101,108,34,58,34,105,110,102,111,34,44,34,109,101,115,115,97,103,101,34,58,34,104,101,108,108,111,34,125>>,
     \* "{\"level\":5,\"msg\":\"x\"}"
     <<123,34,108,101,118,101,108,34,58,53,44,34,109,115,103,34,58,34,120,34,125>>,
     \* "{\"msg\":\"x\"} trailing"
     <<123,34,109,115,103,34,58,34,120,34,125,32,116,114,97,105,108,105,110,103>>,
     \* "{\"Raw\":\"kept\",\"jobID\":\"j1\",\"error\":\"boom\"}"
     <<123,34,82,97,119,34,58,34,107,101,112,116,34,44,34,106,111,98,73,68,34,58,34,106,49,34,44,34,101,114,114,111,114,34,58,34,98,111,111,109,34,125>>,
     \* "{}"
     <<123,125>>,
     \* "2025-07-19T00:26:54.972365013Z 2025-07-19 00:26:54.972 GMT [100] ERROR: relation \"mat_object\" does not exist"
     <<50,48,50,53,45,48,55,45,49,57,84,48,48,58,50,54,58,53,52,46,57,55,50,51,54,53,48,49,51,90,32,50,48,50,53,45,48,55,45,49,57,32,48,48,58,50,54,58,53,52,46,57,55,50,32,71,77,84,32,91,49,48,48,93,32,69,82,82,79,82,58,32,114,101,108,97,116,105,111,110,32,34,109,97,116,95,111,98,106,101,99,116,34,32,100,111,101,115,32,110,111,116,32,101,120,105,115,116>>,
     \* "2025-07-19T00:26:54.972381388Z 2025-07-19 00:26:54.972 GMT [100] STATEMENT: SELECT 1"
     <<50,48,50,53,45,48,55,45,49,57,84,48,48,58,50,54,58,53,52,46,57,55,50,51,56,49,51,56,56,90,32,50,48,50,53,45,48,55,45,49,57,32,48,48,58,50,54,58,53,52,46,57,55,50,32,71,77,84,32,91,49,48,48,93,32,83,84,65,84,69,77,69,78,84,58,32,83,69,76,69,67,84,32,49>>,
     \* "2025-07-19 00:26:48.173 GMT [1] LOG: ready"
     <<50,48,50,53,45,48,55,45,49,57,32,48,48,58,50,54,58,52,56,46,49,55,51,32,71,77,84,32,91,49,93,32,76,79,71,58,32,114,101,97,100,121>>,
     \* "2025-07-19T00:26:48.025548052Z postgresql 00:26:48.02 INFO ==> go"
     <<50,48,50,53,45,48,55,45,49,57,84,48,48,58,50,54,58,52,56,46,48,50,53,53,52,56,48,53,50,90,32,112,111,115,116,103,114,101,115,113,108,32,48,48,58,50,54,58,52,56,46,48,50,32,73,78,70,79,32,61,61,62,32,103,111>>,
     \* "postgresql 00:26:48.02 INFO ==> go"
     <<112,111,115,116,103,114,101,115,113,108,32,48,48,58,50,54,58,52,56,46,48,50,32,73,78,70,79,32,61,61,62,32,103,111>>,
     \* "[WARN] disk"
     <<91,87,65,82,78,93,32,100,105,115,107>>,
     \* "2025-07-19T00:26:48Z [err] bad"
     <<50,48,50,53,45,48,55,45,49,57,84,48,48,58,50,54,58,52,56,90,32,91,101,114,114,93,32,98,97,100>>,
     \* "15:04:05.000 [INFO] hi"
     <<49,53,58,48,52,58,48,53,46,48,48,48,32,91,73,78,70,79,93,32,104,105>>,
     \* "2025-07-19T00:26:48.0Z some exception here"
     <<50,48,50,53,45,48,55,45,49,57,84,48,48,58,50,54,58,52,56,46,48,90,32,115,111,109,101,32,101,120,99,101,112,116,105,111,110,32,104,101,114,101>>,
     \* "2025-07-19 10:30:45 some exception here"
     <<50,48,50,53,45,48,55,45,49,57,32,49,48,58,51,48,58,52,53,32,115,111,109,101,32,101,120,99,101,112,116,105,111,110,32,104,101,114,101>>,
     \* "15:04:05 Failed x"
     <<49,53,58,48,52,58,48,53,32,70,97,105,108,101,100,32,120>>,
     \* "at 15:04:05.5 debug x"
     <<97,116,32,49,53,58,48,52,58,48,53,46,53,32,100,101,98,117,103,32,120>>,
     \* "something bad happened, connection refused"
     <<115,111,109,101,116,104,105,110,103,32,98,97,100,32,104,97,112,112,101,110,101,100,44,32,99,111,110,110,101,99,116,105,111,110,32,114,101,102,117,115,101,100>>,
     \* "x { not json"
     <<120,32,123,32,110,111,116,32,106,115,111,110>>,
     \* "\u0001ab"
     <<1,97,98>>
  >>

\* what precedes the body in the raw line: nothing, blanks, or the 8-byte
\* stream header of stdout (1) or stderr (2)
Prefixes == {<<>>, <<32, 9>>, <<1, 0, 0, 0, 0, 0, 0, 11>>, <<2, 0, 0, 0, 0, 0, 0, 11>>}

\* the parts of a PostgreSQL line behind a Docker timestamp:
\* "2025-07-19T00:26:54.972365013Z", "2025-07-19T00:26:48Z"
PgDockerStamps ==
  {<<50,48,50,53,45,48,55,45,49,57,84,48,48,58,50,54,58,53,52,46,57,55,50,51,54,53,48,49,51,90>>,
   <<50,48,50,53,45,48,55,45,49,57,84,48,48,58,50,54,58,52,56,90>>}
\* "2025-07-19 00:26:54.972"
PgStamp == <<50,48,50,53,45,48,55,45,49,57,32,48,48,58,50,54,58,53,52,46,57,55,50>>
\* "1", "100"
PgPids == {<<49>>, <<49,48,48>>}
\* "ERROR", "LOG", "warning", "STATEMENT"
PgLevels == {s_ERROR, s_LOG, <<119,97,114,110,105,110,103>>, s_STATEMENT}
\* "ready", "relation \"mat_object\" does not exist", "duplicate key: id [7]",
\* "SELECT 1"
PgTexts ==
  {<<114,101,97,100,121>>,
   <<114,101,108,97,116,105,111,110,32,34,109,97,116,95,111,98,106,101,99,116,34,32,100,111,101,115,32,110,111,116,32,101,120,105,115,116>>,
   <<100,117,112,108,105,99,97,116,101,32,107,101,121,58,32,105,100,32,91,55,93>>,
   <<83,69,76,69,67,84,32,49>>}

\* <Docker timestamp> <date time> GMT [<pid>] <level>: <text>
PgLine(ts, pid, lvl, text) ==
  ts \o <<32>> \o PgStamp \o s_GMT \o pid \o s_close \o lvl \o <<58,32>> \o text

PgLines ==
  {PgLine(ts, pid, lvl, text) : ts \in PgDockerStamps, pid \in PgPids,
                                lvl \in PgLevels, text \in PgTexts}

\* lines with a '{': an object with a time behind a timestamp, an object
\* behind a bracketed level, a broken object behind a bracketed level, and
\* an object with its text under msg
\* "2025-07-19T00:26:48.1Z {\"time\":\"t1\",\"msg\":\"x\"}"
line_stampTime == <<50,48,50,53,45,48,55,45,49,57,84,48,48,58,50,54,58,52,56,46,49,90,32,123,34,116,105,109,101,34,58,34,116,49,34,44,34,109,115,103,34,58,34,120,34,125>>
\* "[WARN] {\"msg\":\"x\"}"
line_levelObject == <<91,87,65,82,78,93,32,123,34,109,115,103,34,58,34,120,34,125>>
\* "[WARN] {oops"
line_levelBroken == <<91,87,65,82,78,93,32,123,111,111,112,115>>
\* "{\"level\":\"info\",\"msg\":\"hello\"}"
line_msgKey == <<123,34,108,101,118,101,108,34,58,34,105,110,102,111,34,44,34,109,115,103,34,58,34,104,101,108,108,111,34,125>>

JsonLines == {line_stampTime, line_levelObject, line_levelBroken, line_msgKey}

InputLines ==
  {p \o Bodies[i] : p \in Prefixes, i \in 1..Len(Bodies)}
    \cup {p \o body : p \in Prefixes, body \in PgLines \cup JsonLines}

\* the terminal size initialModel falls back to
FallbackWidth == 80
FallbackHeight == 24

InitParse ==
  /\ produced = <<>>
  /\ cancelled = FALSE
  /\ pc = "client"
  /\ cur = 0
  /\ lineCount = 0
  /\ scanErr = FALSE
  /\ stdout = <<>>
  /\ msgs = <<>>
  /\ sent = <<>>
  /\ m = initialModel(id_long, FallbackWidth, FallbackHeight, FALSE, 0)
  /\ prog = "running"
  /\ input \in InputLines
  /\ output = [done |-> FALSE, entry |-> LogEntry]
  /\ token = <<>>
  /\ canon = [done |-> FALSE, level |-> <<>>]
  /\ wrapIn = [text |-> <<>>, width |-> 1]
  /\ wrapOut = [done |-> FALSE, lines |-> <<>>, fault |-> "none"]

\* logEntry := parseLogLine(line)
Classify ==
  /\ ~output.done
  /\ output' = [done |-> TRUE, entry |-> parseLogLine(input)]
  /\ UNCHANGED <<produced, cancelled, pc, cur, lineCount, scanErr, stdout, msgs, sent, m, prog, input, token, canon, wrapIn, wrapOut>>

NextParse == Classify

SpecParse == InitParse /\ [][NextParse]_vars

(***************************************************************************)
(* Claims                                                                  *)
(***************************************************************************)

\* C1: for every raw input line, the record parseLogLine returns has a
\* non-empty Message or a non-empty Raw.
C1_MessageOrRaw ==
  output.done => (output.entry.Message # <<>> \/ output.entry.Raw # <<>>)

\* a log message is at the head of the queue and this step hands it to Update
IsArrival == msgs # <<>> /\ Head(msgs).type = "log" /\ msgs' = Tail(msgs)

\* the entries of the log messages sent and not yet handled, in order
pendingEntries ==
  LET pend == SelectSeq(msgs, LAMBDA x : x.type = "log")
  IN  [i \in 1..Len(pend) |-> pend[i].entry]

\* C2: the buffer, followed by the records still in flight, is parseLogLine
\* applied to the first lineCount lines of the source, in source order; so the
\* buffer is a prefix of the classified source lines with nothing dropped,
\* duplicated or reordered.
C2_BufferIsPrefix ==
  LET emitted == m.logEntries \o pendingEntries
  IN  /\ Len(emitted) = lineCount
      /\ lineCount <= Len(produced)
      /\ \A i \in 1..Len(emitted) : emitted[i] = classified[produced[i]]

\* C2 witness: the records of two different source lines are in the buffer
C2_Witness ==
  /\ Len(m.logEntries) = 2
  /\ produced = <<2, 1>>
  /\ m.logEntries[1] # m.logEntries[2]

\* C3: a step that is not a record arrival leaves logEntries unchanged; a
\* record arrival appends exactly the arriving entry and keeps the others.
C3_AppendOnly ==
  [][IF IsArrival THEN m'.logEntries = Append(m.logEntries, Head(msgs).entry)
                  ELSE m'.logEntries = m.logEntries]_vars

\* C3 witness: a buffer of two entries in a model that has also handled an
\* error message and key presses (wrap and filter toggled)
C3_Witness ==
  /\ Len(m.logEntries) = 2
  /\ m.err # ""
  /\ ~m.wrapLines
  /\ m.showErrorsOnly

\* C4: scrollOffset >= 0 in every reachable state.
C4_ScrollNonNegative == m.scrollOffset >= 0

\* the range the visible-range rule of the specification selects
claimedRange(md) ==
  LET vis == visibleEntries(md)
      n == Len(vis)
      lo == IF md.scrollOffset >= n THEN Max(n - 1, 0) ELSE Max(md.scrollOffset, 0)
      hi == Min(n, md.scrollOffset + (md.height - 3))
  IN  SubSeq(vis, lo + 1, Max(hi, lo))

\* C5: whenever logs are shown (ready, no error), View renders exactly the
\* filtered list restricted to [scrollOffset, scrollOffset + (height-3))
\* clamped to the list; stated for terminals of at least 3 rows and container
\* identifiers of at least 12 characters.
C5_ViewRange ==
  (m.ready /\ m.err = "" /\ m.height >= 3 /\ Len(m.containerID) >= 12)
    => (View(m).kind = "logs" /\ View(m).entries = claimedRange(m))

C7_EndKey ==
  \A k \in {"end", "G"} :
    Update(m, KeyMsg(k)).m.scrollOffset
      = Max(0, Len(visibleEntries(m)) - (m.height - 3 + 5))

\* C8: a record arrival sets scrollOffset to (filtered count) - (height-3)
\* when the filtered count after the append exceeds height-3, and leaves it
\* unchanged otherwise; stated for terminals of at least 3 rows.
C8_FollowFiltered ==
  (Running /\ msgs # <<>> /\ Head(msgs).type = "log" /\ m.height >= 3)
    => LET after == Update(m, Head(msgs)).m
           n == Len(visibleEntries(after))
       IN  after.scrollOffset = IF n > m.height - 3 THEN n - (m.height - 3) ELSE m.scrollOffset

\* C9: a record arrival that triggers auto-follow (the buffer is then longer
\* than height-3) sets scrollOffset to len(logEntries) - (height-3), whatever
\* scrollOffset was before.
C9_FollowWins ==
  [][(IsArrival /\ Len(m'.logEntries) > m'.height - 3)
       => m'.scrollOffset = Len(m'.logEntries) - (m'.height - 3)]_vars

\* C9 witness: the user has scrolled to offset 3 in a window of one line, a
\* second record is about to arrive, and Update moves the offset to 1
C9_Witness ==
  /\ Running
  /\ msgs # <<>> /\ Head(msgs).type = "log"
  /\ m.height = 4
  /\ Len(m.logEntries) = 1
  /\ m.scrollOffset = 3
  /\ Update(m, Head(msgs)).m.scrollOffset = 1

\* C10: once the context is cancelled, the pump inside its scan loop and
\* after it sends no message and prints nothing.
C10_SilentAfterCancel ==
  [][(cancelled /\ pc \in {"scan", "select", "send", "print", "info", "err"})
       => (Len(msgs') <= Len(msgs) /\ stdout' = stdout)]_vars

(***************************************************************************)
(* Scheduling: every call the pump makes returns, and a read that is       *)
(* blocked returns once the context is cancelled; before that the source   *)
(* (Follow: true) may stay silent for ever.                                *)
(***************************************************************************)
PumpFair ==
  /\ WF_vars(PumpNewClient) /\ WF_vars(PumpInspect) /\ WF_vars(PumpOpenLogs)
  /\ WF_vars(cancelled /\ PumpScan)
  /\ WF_vars(PumpSelect) /\ WF_vars(PumpSend)
  /\ WF_vars(PumpPrint) /\ WF_vars(PumpSendInfo) /\ WF_vars(PumpCheckErr)

SpecFair == Init /\ [][Next]_vars /\ PumpFair

\* C11: once the context is cancelled the pump reaches its end (or the
\* program has ended first); a cancellation seen in the select makes the pump
\* return; and neither the interrupt nor any step of the pump changes the
\* viewer's model or stops the program.
C11_PumpStops ==
  /\ cancelled ~> (pc = "done" \/ ~Running)
  /\ [][(cancelled /\ pc = "select" /\ pc' # pc) => pc' = "done"]_vars
  /\ [][(cancelled' # cancelled \/ pumpVars' # pumpVars) => UNCHANGED viewerVars]_vars

\* C11 witness: the pump has returned from the select of a cancelled
\* context and the viewer, still running, has a record in its buffer
C11_Witness ==
  /\ cancelled /\ pc = "done" /\ stdout = <<>> /\ produced # <<>>
  /\ Running /\ m.logEntries # <<>>

\* the error events among the messages the pump has sent
errorEvents == SelectSeq(sent, LAMBDA x : x = "error")

\* C12: the pump sends at most one error event; the error event is the last
\* message it sends and the pump has then returned; a read error makes the
\* pump leave the loop for good and, once it has returned, exactly one error
\* event has been sent.
C12_OneErrorEvent ==
  /\ Len(errorEvents) <= 1
  /\ (errorEvents # <<>> => (sent[Len(sent)] = "error" /\ pc = "done"))
  /\ (scanErr => pc \in {"print", "info", "err", "done"})
  /\ ((scanErr /\ pc = "done") => Len(errorEvents) = 1)

\* C12 witness: a read error after two records; the pump has returned
C12_Witness ==
  /\ scanErr /\ pc = "done" /\ lineCount = 2
  /\ sent = <<"log", "log", "info", "error">>

(***************************************************************************)
(* The viewer on its own: Update and View under messages of every type in  *)
(* any order; sent records the kinds of the messages handled.              *)
(***************************************************************************)
MaxEvents == 3

\* Update(logMsg(...))
OnLog ==
  /\ Running
  /\ Len(sent) < MaxEvents
  /\ \E i \in 1..Len(SysLines) : Handle(logMsg(classified[i]))
  /\ sent' = Append(sent, "log")
  /\ UNCHANGED <<produced, pc, cur, lineCount, scanErr, stdout, cancelled, msgs, parseVars>>

\* Update(errorMsg{...})
OnError ==
  /\ Running
  /\ Len(sent) < MaxEvents
  /\ Handle(errorMsg("error reading logs"))
  /\ sent' = Append(sent, "error")
  /\ UNCHANGED <<produced, pc, cur, lineCount, scanErr, stdout, cancelled, msgs, parseVars>>

\* Update(infoMsg{...})
OnInfo ==
  /\ Running
  /\ Len(sent) < MaxEvents
  /\ Handle(infoMsg(Len(m.logEntries)))
  /\ sent' = Append(sent, "info")
  /\ UNCHANGED <<produced, pc, cur, lineCount, scanErr, stdout, cancelled, msgs, parseVars>>

NextUpdate == KeyPress \/ Resize \/ OnLog \/ OnError \/ OnInfo

SpecUpdate == Init /\ [][NextUpdate]_vars

C14_ErrorPersists ==
  [][m.err # "" => (m'.err # "" /\ View(m').kind = "error")]_vars

\* C14 witness: an error, then a record and an info message have been
\* handled, and keys and a resize too; err is set and View shows the error
C14_Witness ==
  /\ sent = <<"error", "log", "info">>
  /\ m.err # "" /\ View(m).kind = "error"
  /\ m.showErrorsOnly /\ ~m.wrapLines /\ m.scrollOffset = 2 /\ m.height = 4

\* C15: in every state of the running program, whatever the pump's position
\* and the messages in flight, Update answers q and ctrl+c with the unchanged
\* model and the quit command, and the View of that model does not fault, so
\* the key press ends the program with tea.Quit.
C15_QuitKey ==
  Running =>
    \A k \in {"q", "ctrl+c"} :
      LET r == Update(m, KeyMsg(k))
      IN  r = [m |-> m, cmd |-> "quit"] /\ View(r.m).kind # "panic"

\* C15 witness: the pump is blocked in the read, two of its messages are
\* not yet handled and the viewer is still loading
C15_Witness ==
  /\ Running /\ pc = "scan" /\ Len(msgs) = 2 /\ ~m.ready

\* the number of messages of kind k the pump has sent
sentCount(k) == Len(SelectSeq(sent, LAMBDA x : x = k))

\* the pump has returned after leaving the scan loop: every line scanned was
\* sent (no return from the select) and the source had been opened (the only
\* message of a pump that could not open it is one error event)
loopLeft == pc = "done" /\ Len(produced) = lineCount /\ sent # <<"error">>

\* C17: the pump prints the count at most once and sends at most one info
\* event; once it has returned after the end of the stream it has done both
\* exactly once; the printed count and the count of the info event are the
\* number of record events sent; and Update leaves the model unchanged on
\* the info event.
C17_ReportOnce ==
  /\ Len(stdout) <= 1 /\ sentCount("info") <= 1
  /\ (loopLeft => (Len(stdout) = 1 /\ sentCount("info") = 1))
  /\ (stdout # <<>> => stdout[1] = sentCount("log"))
  /\ \A i \in 1..Len(msgs) : msgs[i].type = "info" => msgs[i].count = sentCount("log")
  /\ ((msgs # <<>> /\ Head(msgs).type = "info")
        => Update(m, Head(msgs)) = [m |-> m, cmd |-> "nil"])

\* C17 witness: the stream ended after two lines; the count 2 was printed and
\* the info event has been handled by the viewer, which holds the two records
C17_Witness ==
  /\ loopLeft /\ ~scanErr /\ stdout = <<2>>
  /\ sent = <<"log", "log", "info">> /\ msgs = <<>>
  /\ Len(m.logEntries) = 2

\* C18: a pump that fails to create the client, to inspect the container or
\* to open the log stream returns at once having sent one error event and
\* nothing else, and a pump that has returned takes no further step: it sends
\* nothing more and does not try again.
C18_Unavailable ==
  /\ [][(pc \in {"client", "inspect", "open"} /\ pc' = "done")
          => (sent' = <<"error">> /\ lineCount' = 0 /\ stdout' = <<>>)]_vars
  /\ []((pc = "done" /\ produced = <<>> /\ stdout = <<>>) => sent = <<"error">>)
  /\ [][pc = "done" => (pc' = "done" /\ sent' = sent /\ stdout' = stdout)]_vars

\* C18 witness: the container was not found; the pump has returned and the
\* viewer has handled its only message
C18_Witness ==
  /\ pc = "done" /\ sent = <<"error">> /\ msgs = <<>>
  /\ m.err = "container not found" /\ m.logEntries = <<>>

(***************************************************************************)
(* normalizeLevel on its own: one level in, one canonical level out.       *)
(***************************************************************************)
\* "TRACE"
s_TRACE == <<84,82,65,67,69>>
\* "x y"
s_x_y == <<120,32,121>>
\* U+212A KELVIN SIGN in UTF-8, an upper-case letter whose lower case is "k"
s_KELVIN == <<226,132,170>>

\* the levels of the table, the canonical ones, the empty one, three others
LevelWords ==
  {s_WARNING, s_WARN, s_ERR, s_INFORMATION, s_DBG, s_LOG, s_STATEMENT, s_STMT,
   s_NOTICE, s_FATAL, s_PANIC, s_ERROR, s_INFO, s_DEBUG, <<>>, s_TRACE, s_x_y,
   s_KELVIN}

\* first letter in upper case, the rest in lower case
Capital(s) == [i \in 1..Len(s) |-> IF i = 1 THEN ToUpper(s)[i] ELSE ToLower(s)[i]]

\* every letter in the other case
SwapCase(s) ==
  [i \in 1..Len(s) |-> IF s[i] \in Lower THEN s[i] - 32
                       ELSE IF s[i] \in Upper THEN s[i] + 32 ELSE s[i]]

\* white space around the level
LevelPads == {<<>>, <<32>>, <<9, 32>>}

LevelTokens ==
  {pre \o c \o suf : pre \in LevelPads, suf \in LevelPads,
                     c \in UNION {{w, ToLower(w), Capital(w)} : w \in LevelWords}}

InitLevel ==
  /\ produced = <<>>
  /\ cancelled = FALSE
  /\ pc = "client"
  /\ cur = 0
  /\ lineCount = 0
  /\ scanErr = FALSE
  /\ stdout = <<>>
  /\ msgs = <<>>
  /\ sent = <<>>
  /\ m = initialModel(id_long, FallbackWidth, FallbackHeight, FALSE, 0)
  /\ prog = "running"
  /\ input = <<>>
  /\ output = [done |-> FALSE, entry |-> LogEntry]
  /\ token \in LevelTokens
  /\ canon = [done |-> FALSE, level |-> <<>>]
  /\ wrapIn = [text |-> <<>>, width |-> 1]
  /\ wrapOut = [done |-> FALSE, lines |-> <<>>, fault |-> "none"]

\* level := normalizeLevel(entry.Level)
Normalize ==
  /\ ~canon.done
  /\ canon' = [done |-> TRUE, level |-> normalizeLevel(token)]
  /\ UNCHANGED <<produced, cancelled, pc, cur, lineCount, scanErr, stdout, msgs, sent, m, prog, input, output, token, wrapIn, wrapOut>>

NextLevel == Normalize

SpecLevel == InitLevel /\ [][NextLevel]_vars

\* C19: a record parseLogLine returns whose level normalizeLevel maps to
\* ERROR is an error record for isErrorLog.
C19_CanonicalError ==
  (output.done /\ normalizeLevel(output.entry.Level) = s_ERROR) => isErrorLog(output.entry)

\* the token in lower case as Unicode defines it: the lower case of the
\* Kelvin sign is the letter k
UnicodeLower(s) == IF TrimSpace(s) = s_KELVIN THEN <<107>> ELSE ToLower(s)

\* every letter of the token is an ASCII character
IsASCII(s) == \A i \in 1..Len(s) : s[i] < 128

\* C20 (as claimed): normalizeLevel applied to its own result returns that
\* result, and it returns the same result for the token in upper case, in
\* lower case and with the case of every letter swapped.
C20_CaseInsensitive ==
  canon.done =>
    /\ normalizeLevel(canon.level) = canon.level
    /\ \A v \in {ToUpper(token), UnicodeLower(token), SwapCase(token)} :
         normalizeLevel(v) = canon.level

\* C20 (amended): normalizeLevel applied to its own result returns that
\* result for every token, and for a token of ASCII characters it returns
\* the same result in upper case, in lower case and with the case of every
\* letter swapped.
C20_Idempotent ==
  canon.done =>
    /\ normalizeLevel(canon.level) = canon.level
    /\ (IsASCII(token) =>
          \A v \in {ToUpper(token), ToLower(token), SwapCase(token)} :
            normalizeLevel(v) = canon.level)

\* C20 witness: " Fatal" has been mapped to "ERROR"
C20_Witness ==
  /\ canon.done /\ token = <<32>> \o Capital(s_FATAL) /\ canon.level = s_ERROR

(***************************************************************************)
(* The level table, the classification chain on given shapes of line       *)
(***************************************************************************)
\* the canonicalization table as the specification lists it
levelTable ==
  {<<s_WARNING, s_WARN>>, <<s_ERR, s_ERROR>>, <<s_INFORMATION, s_INFO>>,
   <<s_DBG, s_DEBUG>>, <<s_LOG, s_INFO>>, <<s_STATEMENT, s_INFO>>,
   <<s_STMT, s_INFO>>, <<s_NOTICE, s_INFO>>, <<s_FATAL, s_ERROR>>,
   <<s_PANIC, s_ERROR>>, <<<<>>, s_INFO>>}

\* the table applied to a token: its row if it has one, else the token in
\* upper case
tableLevel(tok) ==
  LET up == ToUpper(tok) IN
  IF \E row \in levelTable : row[1] = up
  THEN (CHOOSE row \in levelTable : row[1] = up)[2]
  ELSE up

\* C21 (as claimed): normalizeLevel returns the table's level for a token of
\* the table, INFO for the empty token, and every other token in upper case
\* and otherwise unchanged.
C21_TableOnToken ==
  canon.done => canon.level = tableLevel(token)

\* C21 (amended): normalizeLevel first trims the white space around the
\* token, then returns the table's level for a token of the table, INFO for
\* the empty token, and every other token in upper case.
C21_TableOnTrimmed ==
  canon.done => canon.level = tableLevel(TrimSpace(token))

\* C21 witness: " notice" has been mapped to "INFO"
C21_Witness ==
  /\ canon.done /\ token = <<32>> \o ToLower(s_NOTICE) /\ canon.level = s_INFO

\* the line parseLogLine classifies: the stream header dropped, then trimmed
trimmedLine == TrimSpace(stripPrefix(input))

\* "something bad happened, connection refused"
line_refused == Bodies[23]
\* the JSON line with "level":"warn"
line_jsonWarn == Bodies[4]
\* "2025-07-19 00:26:48.173 GMT [1] LOG: ready"
line_pgLog == Bodies[13]

\* C22: every record parseLogLine returns carries a canonical level
\* (normalizeLevel leaves it as it is); the JSON line with "level":"warn"
\* yields WARN and the bracketed-PID line with level LOG yields INFO.
C22_CanonicalLevel ==
  output.done =>
    /\ normalizeLevel(output.entry.Level) = output.entry.Level
    /\ (trimmedLine = line_jsonWarn => output.entry.Level = s_WARN)
    /\ (trimmedLine = line_pgLog => output.entry.Level = s_INFO)

\* the line has no '{', matches no pattern of the chain and holds no time
unstructured(line) ==
  /\ Index(line, <<123>>) = -1
  /\ firstPattern(line, 1) = 0
  /\ ~FindStringSubmatch(timePattern, 1, line).ok

\* C23: a line without timestamp and structure that holds a keyword of the
\* error classification is returned with level ERROR and the full line as
\* its message.
C23_KeywordError ==
  (output.done /\ unstructured(trimmedLine) /\ hasErrorKeyword(ToLower(trimmedLine))) =>
    /\ output.entry.Level = s_ERROR
    /\ output.entry.Message = trimmedLine

\* C24: a PostgreSQL STATEMENT line behind a Docker timestamp is returned
\* with level INFO, message "SQL: " and the text, the pid as correlation id
\* and the Docker timestamp.
C24_Statement ==
  output.done =>
    \A ts \in PgDockerStamps, pid \in PgPids, text \in PgTexts :
      trimmedLine = PgLine(ts, pid, s_STATEMENT, text) =>
        output.entry = [LogEntry EXCEPT !.Time = ts, !.Level = s_INFO,
                                        !.Message = s_SQL \o text, !.JobID = pid]

MaxText == 5
MaxWidth == 3
\* "a", "b", " "
WrapAlphabet == {97, 98, 32}
WrapTexts == UNION {[1..n -> WrapAlphabet] : n \in 0..MaxText}

InitWrap ==
  /\ produced = <<>>
  /\ cancelled = FALSE
  /\ pc = "client"
  /\ cur = 0
  /\ lineCount = 0
  /\ scanErr = FALSE
  /\ stdout = <<>>
  /\ msgs = <<>>
  /\ sent = <<>>
  /\ m = initialModel(id_long, FallbackWidth, FallbackHeight, FALSE, 0)
  /\ prog = "running"
  /\ input = <<>>
  /\ output = [done |-> FALSE, entry |-> LogEntry]
  /\ token = <<>>
  /\ canon = [done |-> FALSE, level |-> <<>>]
  /\ \E str \in WrapTexts, w \in 1..MaxWidth : wrapIn = [text |-> str, width |-> w]
  /\ wrapOut = [done |-> FALSE, lines |-> <<>>, fault |-> "none"]

\* wrappedLines := wrapText(finalLine, width)
Wrap ==
  /\ ~wrapOut.done /\ wrapOut.fault = "none"
  /\ LET fault == wrapFault(wrapIn.text, wrapIn.width)
     IN  wrapOut' = [done |-> fault = "none",
                     lines |-> IF fault = "none" THEN wrapText(wrapIn.text, wrapIn.width) ELSE <<>>,
                     fault |-> fault]
  /\ UNCHANGED <<produced, cancelled, pc, cur, lineCount, scanErr, stdout, msgs, sent, m, prog,
                 input, output, token, canon, wrapIn>>

NextWrap == Wrap

SpecWrap == InitWrap /\ [][NextWrap]_vars

\* C26: every line wrapText returns is at most the width long, and a text
\* of one word longer than the width comes back as that word cut into
\* pieces of exactly the width, the last one at most the width.
C26_LinesFit ==
  wrapOut.done =>
    LET lines == wrapOut.lines
        w == wrapIn.width
    IN  /\ \A i \in 1..Len(lines) : Len(lines[i]) <= w
        /\ (Fields(wrapIn.text) = <<wrapIn.text>> /\ Len(wrapIn.text) > w) =>
             /\ \A i \in 1..(Len(lines) - 1) : lines[i] = SubSeq(wrapIn.text, (i - 1) * w + 1, i * w)
             /\ lines[Len(lines)] = Drop(wrapIn.text, (Len(lines) - 1) * w)

\* the words joined by single spaces
RECURSIVE joinWords(_)
joinWords(words) ==
  IF words = <<>> THEN <<>>
  ELSE IF Len(words) = 1 THEN words[1]
  ELSE words[1] \o <<32>> \o joinWords(Tail(words))

\* every way to join the lines with a space or nothing between two lines
RECURSIVE joinings(_)
joinings(lines) ==
  IF lines = <<>> THEN {<<>>}
  ELSE IF Len(lines) = 1 THEN {lines[1]}
  ELSE {lines[1] \o sep \o rest : sep \in {<<>>, <<32>>}, rest \in joinings(Tail(lines))}

\* C27: the lines wrapText returns, joined with a space between words and
\* with nothing between the pieces of a split word, are the text with its
\* white space normalized (its words joined by single spaces).
C27_Reconstructs ==
  wrapOut.done => joinWords(Fields(wrapIn.text)) \in joinings(wrapOut.lines)

(***************************************************************************)
(* The viewer on a narrow and low terminal: the same steps as SpecUpdate,  *)
(* started with a size at which wrapping and cutting happen.               *)
(***************************************************************************)
NarrowWidths == {12}
LowHeights == {3, 4}
\* readings of the clock: "00:26:48.173", "23:59:59.999"
Clocks ==
  {<<48,48,58,50,54,58,52,56,46,49,55,51>>, <<50,51,58,53,57,58,53,57,46,57,57,57>>}

InitRender ==
  /\ produced = <<>>
  /\ cancelled = FALSE
  /\ pc = "client"
  /\ cur = 0
  /\ lineCount = 0
  /\ scanErr = FALSE
  /\ stdout = <<>>
  /\ msgs = <<>>
  /\ sent = <<>>
  /\ \E id \in ContainerIDs, w \in NarrowWidths, h \in LowHeights, errorsOnly \in BOOLEAN :
       m = initialModel(id, w, h, errorsOnly, 0)
  /\ prog = "running"
  /\ input = <<>>
  /\ output = [done |-> FALSE, entry |-> LogEntry]
  /\ token = <<>>
  /\ canon = [done |-> FALSE, level |-> <<>>]
  /\ wrapIn = [text |-> <<>>, width |-> 1]
  /\ wrapOut = [done |-> FALSE, lines |-> <<>>, fault |-> "none"]

SpecRender == InitRender /\ [][NextUpdate]_vars

\* the clock texts formatTime can give the selected entries, one each
stampings == [1..Len(View(m).entries) -> Clocks]

\* C28: whenever View shows logs, with wrapping on or off, it produces at
\* most height-3 display lines.
C28_LinesFitHeight ==
  View(m).kind = "logs" =>
    \A stamps \in stampings : Len(viewLines(m, stamps)) <= m.height - 3

\* C28 witness: logs are shown with wrapping on, and the wrapped lines of
\* the selected records are more than the window holds
C28_Witness ==
  /\ View(m).kind = "logs" /\ m.wrapLines
  /\ \E stamps \in stampings :
       /\ Len(logLines(m, View(m).entries, stamps)) > m.height - 3
       /\ Len(viewLines(m, stamps)) = m.height - 3

\* C29: with wrapping off View produces exactly one display line for each
\* record of the selected range, and the selected range is the same with
\* wrapping on and off.
C29_OneLinePerRecord ==
  View(m).kind = "logs" =>
    /\ ~m.wrapLines =>
         \A stamps \in stampings :
           viewLines(m, stamps) =
             [i \in 1..Len(View(m).entries) |-> finalLine(View(m).entries[i], stamps[i])]
    /\ View([m EXCEPT !.wrapLines = ~m.wrapLines]) = View(m)

\* C30: a resize event sets width and height to the new values and leaves
\* scrollOffset, the buffer, the filter flag, the wrap flag, ready and err
\* as they are, and asks for no command.
C30_ResizeFrame ==
  \A w \in Widths \cup NarrowWidths, h \in Heights \cup LowHeights :
    LET r == Update(m, WindowSizeMsg(w, h)) IN
      /\ r.cmd = "nil"
      /\ r.m.width = w /\ r.m.height = h
      /\ r.m.scrollOffset = m.scrollOffset
      /\ r.m.logEntries = m.logEntries
      /\ r.m.showErrorsOnly = m.showErrorsOnly
      /\ r.m.wrapLines = m.wrapLines
      /\ r.m.ready = m.ready
      /\ r.m.err = m.err

\* C30 witness: the terminal, 12 columns wide at the start, has been resized
\* to 80 columns and 7 lines while two records were buffered, the view was
\* scrolled and wrapping was off
C30_Witness ==
  /\ m.width = 80 /\ m.height = 7
  /\ Len(m.logEntries) = 2 /\ m.scrollOffset = 2 /\ ~m.wrapLines /\ m.ready

(***************************************************************************)
(* The keys of the viewer                                                  *)
(***************************************************************************)
\* C31: the key up/k sets scrollOffset to max(0, scrollOffset - 1) and the
\* key pageup sets it to max(0, scrollOffset - height), in every reachable
\* state.
C31_UpKeys ==
  /\ \A k \in {"up", "k"} :
       Update(m, KeyMsg(k)).m.scrollOffset = Max(0, m.scrollOffset - 1)
  /\ Update(m, KeyMsg("pageup")).m.scrollOffset = Max(0, m.scrollOffset - m.height)

\* C32: the key down/j adds exactly 1 to scrollOffset and the key pagedown
\* exactly height, whatever the length of the buffer, and they change
\* nothing else of the model.
C32_DownKeys ==
  /\ \A k \in {"down", "j"} :
       Update(m, KeyMsg(k)) = [m |-> [m EXCEPT !.scrollOffset = m.scrollOffset + 1], cmd |-> "nil"]
  /\ Update(m, KeyMsg("pagedown"))
       = [m |-> [m EXCEPT !.scrollOffset = m.scrollOffset + m.height], cmd |-> "nil"]

\* C32 witness: with one record in the buffer the view has been scrolled
\* down past it
C32_Witness ==
  /\ m.ready /\ Len(m.logEntries) = 1 /\ m.scrollOffset = 5

\* C33: the key w flips the wrap flag and nothing else, the key e flips the
\* error-only flag and nothing else, and the same key pressed twice gives
\* the state back.
C33_ToggleKeys ==
  LET w1 == Update(m, KeyMsg("w"))
      e1 == Update(m, KeyMsg("e"))
  IN  /\ w1 = [m |-> [m EXCEPT !.wrapLines = ~m.wrapLines], cmd |-> "nil"]
      /\ e1 = [m |-> [m EXCEPT !.showErrorsOnly = ~m.showErrorsOnly], cmd |-> "nil"]
      /\ Update(w1.m, KeyMsg("w")).m = m
      /\ Update(e1.m, KeyMsg("e")).m = m

\* C33 witness: the filter has been switched on after the start, with a
\* scrolled view of two records
C33_Witness ==
  /\ m.ready /\ Len(m.logEntries) = 2 /\ m.scrollOffset = 1 /\ m.height = 4
  /\ m.showErrorsOnly /\ m.wrapLines /\ Len(sent) = 2

\* the events of the viewport
resizeEvents == {WindowSizeMsg(w, h) : w \in Widths \cup NarrowWidths, h \in Heights \cup LowHeights}
keyEvents(keys) == {KeyMsg(k) : k \in keys}

\* the event applied twice gives the state it gives applied once
idempotentOn(ev) == Update(Update(m, ev).m, ev).m = Update(m, ev).m

\* C34 (as claimed): resize, up, down, home, end, pageup, pagedown, w and e
\* applied twice in a row give the same state as applied once.
C34_AllIdempotent ==
  \A ev \in resizeEvents
            \cup keyEvents({"up", "k", "down", "j", "home", "g", "end", "G",
                            "pageup", "pagedown", "w", "e"}) :
    idempotentOn(ev)

\* C34 (amended): resize, home and end applied twice in a row give the same
\* state as applied once.
C34_AbsoluteIdempotent ==
  \A ev \in resizeEvents \cup keyEvents({"home", "g", "end", "G"}) : idempotentOn(ev)

\* C34 witness: end has been pressed on a scrolled-back view of two records
\* on a terminal of 4 lines
C34_Witness ==
  /\ m.ready /\ Len(m.logEntries) = 2 /\ m.height = 4
  /\ m.scrollOffset = Len(m.logEntries) - m.height + 5

\* C35: whenever View slices the visible list, its bounds satisfy
\* 0 <= start <= end <= len(visibleEntries).
C35_SliceInRange ==
  (m.err = "" /\ m.ready) =>
    LET n == Len(visibleEntries(m))
        start == viewStart(m, n)
        end == viewEnd(m, n)
    IN  0 <= start /\ start <= end /\ end <= n

(***************************************************************************)
(* wrapText with the widths View can pass: width-2 of a terminal that is   *)
(* 1 column wide or more.                                                  *)
(***************************************************************************)
WrapWidthsAny == (0 - 1)..MaxWidth

InitWrapAny ==
  /\ produced = <<>>
  /\ cancelled = FALSE
  /\ pc = "client"
  /\ cur = 0
  /\ lineCount = 0
  /\ scanErr = FALSE
  /\ stdout = <<>>
  /\ msgs = <<>>
  /\ sent = <<>>
  /\ m = initialModel(id_long, FallbackWidth, FallbackHeight, FALSE, 0)
  /\ prog = "running"
  /\ input = <<>>
  /\ output = [done |-> FALSE, entry |-> LogEntry]
  /\ token = <<>>
  /\ canon = [done |-> FALSE, level |-> <<>>]
  /\ \E str \in WrapTexts, w \in WrapWidthsAny : wrapIn = [text |-> str, width |-> w]
  /\ wrapOut = [done |-> FALSE, lines |-> <<>>, fault |-> "none"]

SpecWrapAny == InitWrapAny /\ [][NextWrap]_vars

\* C36: for every text and every width, zero and negative ones included,
\* wrapText neither faults nor runs for ever.
C36_WrapReturns == wrapOut.fault = "none"

\* C37: once the first record has arrived and no error is recorded, View
\* does not fault for a container identifier shorter than 12 characters.
C37_ShortIdentifier ==
  (m.ready /\ m.err = "" /\ Len(m.containerID) < 12 /\ m.height >= 3 /\ m.scrollOffset >= 0) =>
    View(m).kind = "logs"

(***************************************************************************)
(* The classifier: keyword scan and structured lines                       *)
(***************************************************************************)
\* the text from the first '{' of the line parses as an object
jsonParsed(line) ==
  /\ Index(line, <<123>>) # -1
  /\ ~Unmarshal(Drop(line, Index(line, <<123>>))).err

\* the line is classified by one of the free-text forms: Docker timestamp
\* and text, date-time and text, bare time and text, or a fallback
freeText(line) ==
  ~jsonParsed(line) /\ firstPattern(line, 1) \in {0, 9, 10, 11}

\* the keyword scan as the specification states it
claimedScan(message) ==
  LET lower == ToLower(message) IN
  IF Contains(lower, s_error) \/ Contains(lower, s_failed) \/ Contains(lower, s_exception)
  THEN s_ERROR
  ELSE IF Contains(lower, s_warn) THEN s_WARN
  ELSE IF Contains(lower, s_debug) THEN s_DEBUG
  ELSE s_INFO

\* C38: in every free-text form the level of the record is the keyword scan
\* of its message: error, failed or exception give ERROR, else warn gives
\* WARN, else debug gives DEBUG, else INFO.
C38_SameScan ==
  (output.done /\ freeText(trimmedLine)) =>
    output.entry.Level = claimedScan(output.entry.Message)

\* C39: when the text from the first '{' parses as an object the record is
\* that object, with the text before the '{' as Time exactly when the object
\* has none, and no text pattern is tried; when it does not parse, the
\* record is the one the text classifier gives the whole trimmed line.
C39_ObjectFirst ==
  output.done =>
    LET line == trimmedLine
        object == Unmarshal(Drop(line, Index(line, <<123>>))).entry
        before == TrimSpace(Take(line, Index(line, <<123>>)))
    IN  /\ jsonParsed(line) =>
             output.entry = [object EXCEPT !.Time = IF object.Time = <<>> THEN before ELSE object.Time]
        /\ ~jsonParsed(line) => output.entry = parseUniversalLog(line)
        /\ line = line_stampTime =>
             output.entry = [LogEntry EXCEPT !.Time = <<116,49>>, !.Message = <<120>>]
        /\ line = line_levelObject =>
             output.entry = [LogEntry EXCEPT !.Time = <<91,87,65,82,78,93>>, !.Message = <<120>>]
        /\ line = line_levelBroken =>
             output.entry = [LogEntry EXCEPT !.Level = s_WARN, !.Message = <<123,111,111,112,115>>]

\* C39 witness: the object with time "t1" behind a Docker timestamp has been
\* classified and kept its own time
C39_Witness ==
  /\ output.done /\ trimmedLine = line_stampTime /\ output.entry.Time = <<116,49>>

\* the object with its text under the key message
line_messageKey == Bodies[6]

\* C40: an object that carries its text under the key message is classified
\* with that text as Message, as the same object with the key msg is.
C40_MessageKey ==
  (output.done /\ trimmedLine = line_messageKey) =>
    /\ output.entry.Message = <<104,101,108,108,111>>
    /\ output.entry = parseLogLine(line_msgKey)

=============================================================================
